---- MODULE Spec2Model ----
(***************************************************************************)
(* State-machine model of the kijijiScrapper crawl pipeline: the generic   *)
(* FSM engine (core/baseFSM.py), the persistence port                      *)
(* (core/coreDatabase), the record formatter (scraper/kijijiDataFormatter) *)
(* and the three crawl machines (scraper/paginationScraper.py,             *)
(* scraper/completionScraper.py, scraper/deadLinkScraper.py).              *)
(***************************************************************************)
EXTENDS Integers, Sequences, FiniteSets, TLC

VARIABLES
    store,          \* rows of the table / documents of the collection, listed by url
    db_type,        \* db_config['db_type']: "SQL", "mongodb" or an unsupported kind
    max_zero_added, \* KijijiPaginationFSM.max_zero_added
    now,            \* wall clock, in units of 24 hours
    pag,            \* the KijijiPaginationFSM object
    comp,           \* the KijijiCompletionFSM object
    dl,             \* the KijijiLinkCheckFSM object
    base,           \* a plain BaseFSM object
    scrapers,       \* the machines that were constructed
    last,           \* observation of the most recent run(continuous=False) call
    hist,           \* history of the pagination run (zero-insert pages seen)
    main,           \* Main.run: its configuration, position and scraper flags
    schema,         \* whether the table exists and url is unique in it
    rent_ad         \* the latest KijijiDataFormatter call: its raw_data and its results

vars ==
    <<store, db_type, max_zero_added, now, pag, comp, dl, base, scrapers, last, hist,
      main, schema, rent_ad>>

-----------------------------------------------------------------------------
(* Bounds of the model *)

MaxUrl == 2        \* distinct listing urls the site can serve
MaxListings == 2   \* listings on one result page
MaxPage == 3       \* highest page number the pagination machine may reach
MaxTol == 2        \* largest configured max_zero_added
MaxTime == 2       \* last value of the clock

(* Program constants *)

StaleWindow == 1        \* timedelta(hours=24), in clock units
DefaultStartPage == 1
DefaultMaxZeroAdded == 1

URLS == 1..MaxUrl
NoDate == -1       \* a NULL date column

-----------------------------------------------------------------------------
(* Raw listings, pages and the formatter *)

\* A raw listing of the embedded payload: its seoUrl, the payload it came from
\* ("listing" page or "detail" page) and whether its shape lets format_data succeed.
Raw(u, src) == [seoUrl |-> u, src |-> src, wellformed |-> TRUE]
BadRaw == [seoUrl |-> 1, src |-> "listing", wellformed |-> FALSE]

RawListings == {Raw(u, "listing") : u \in URLS}

SeqsUpTo(S, n) == UNION {[1..k -> S] : k \in 0..n}

\* The listing sequences a result page may carry.
PageListings == SeqsUpTo(RawListings, MaxListings) \cup {<<Raw(1, "listing"), BadRaw>>}

\* KijijiAd as built by KijijiDataFormatter.format_data and KijijiAd.to_dict.
format_data(raw) ==
    [url |-> raw.seoUrl,
     title |-> raw.src,
     process_state |-> "NEW",
     state |-> "ACTIVE",
     last_checked_date |-> NoDate,
     removal_date |-> NoDate]

\* KijijiScraper.format_ad_data: format_data returns None on a malformed
\* listing, and the access to .url then raises.
format_ad_data(raw) ==
    IF raw.wellformed
    THEN [raised |-> FALSE, value |-> format_data(raw)]
    ELSE [raised |-> TRUE, value |-> format_data(raw)]

-----------------------------------------------------------------------------
(* Price and attributes of a raw listing (KijijiDataFormatter) *)

MaxAttrs == 2      \* entries of the attributes list of one listing
MaxValues == 2     \* values of one attribute

\* Values of the JSON payload, by their Python type.
PyNone == [type |-> "NoneType"]
PyInt(n) == [type |-> "int", v |-> n]
PyStr(s) == [type |-> "str", v |-> s]
PyList(xs) == [type |-> "list", v |-> xs]
PyDict(f) == [type |-> "dict", v |-> f]

\* The float printed by "{:.2f}" for cents / 100.0, cents a natural number:
\* its integer part and its two decimals.
PyFloat2(cents) == [type |-> "float", units |-> cents \div 100, hundredths |-> cents % 100]

EmptyDict == [k \in {} |-> PyNone]

\* dict.get(key, default)
get(d, key, default) == IF key \in DOMAIN d THEN d[key] ELSE default

\* Truth value of a list or of a dict.
bool(x) == IF x.type = "list" THEN Len(x.v) > 0 ELSE DOMAIN x.v # {}

\* _calculate_price: a missing "price" is {} and a missing "amount" is 0; a
\* None amount gives None; float() of a non-numeric string is the ValueError
\* that is caught and gives None; a "price" that is not a dict has no .get,
\* and that AttributeError is not caught here.
_calculate_price(data) ==
    LET price_info == get(data, "price", PyDict(EmptyDict))
        amount == get(price_info.v, "amount", PyInt(0))
    IN  IF price_info.type # "dict" THEN [raised |-> TRUE, value |-> PyNone]
        ELSE IF amount.type = "NoneType" THEN [raised |-> FALSE, value |-> PyNone]
        ELSE IF amount.type # "int" THEN [raised |-> FALSE, value |-> PyNone]
        ELSE [raised |-> FALSE, value |-> PyFloat2(amount.v)]

\* The dict comprehension {key: value for ...} over the listed items: a
\* later item replaces an earlier one with the same key.
DictOf(items) ==
    [k \in {items[i].key : i \in 1..Len(items)} |->
        LET i == CHOOSE i \in 1..Len(items) :
                     /\ items[i].key = k
                     /\ \A j \in (i + 1)..Len(items) : items[j].key # k
        IN  items[i].value]

\* _extract_attributes: a non-empty "attributes" list of {name, values}
\* entries, a one-element values list collapsed to its element and an empty
\* one being an IndexError; otherwise the "adAttributes" list of {machineKey,
\* machineValue} entries.  Iterating a dict yields its keys, and subscripting
\* a key with a string is a TypeError.
_extract_attributes(data) ==
    LET attributes == get(data, "attributes", PyList(<<>>))
        adAttributes == get(data, "adAttributes", PyList(<<>>))
        named(attr) ==
            [key |-> attr.name,
             value |-> IF Len(attr.values) > 1 THEN PyList(attr.values)
                       ELSE PyInt(attr.values[1])]
        keyed(attr) == [key |-> attr.machineKey, value |-> PyInt(attr.machineValue)]
    IN  IF bool(attributes)
        THEN IF attributes.type = "dict"
                \/ \E i \in 1..Len(attributes.v) : Len(attributes.v[i].values) = 0
             THEN [raised |-> TRUE, value |-> EmptyDict]
             ELSE [raised |-> FALSE,
                   value |-> DictOf([i \in 1..Len(attributes.v) |-> named(attributes.v[i])])]
        ELSE IF adAttributes.type = "dict"
             THEN [raised |-> bool(adAttributes), value |-> EmptyDict]
             ELSE [raised |-> FALSE,
                   value |-> DictOf([i \in 1..Len(adAttributes.v) |->
                                        keyed(adAttributes.v[i])])]

\* The shapes of "price" in a raw listing: the key missing, null, a dict
\* without amount, and a dict with a null, an integer or a non-numeric amount.
PriceAmounts == {0, 1, 99, 100, 12345}
PriceShapes ==
    {EmptyDict, "price" :> PyNone, "price" :> PyDict(EmptyDict),
     "price" :> PyDict("amount" :> PyNone), "price" :> PyDict("amount" :> PyStr("N/A"))}
    \cup {"price" :> PyDict("amount" :> PyInt(n)) : n \in PriceAmounts}

\* The shapes of the attributes of a raw listing: an "attributes" list or an
\* "adAttributes" list.
AttrNames == {"numberbedrooms", "petsallowed"}
AttrShapes ==
    {"attributes" :> PyList(xs) :
        xs \in SeqsUpTo([name : AttrNames,
                         values : {[i \in 1..k |-> i] : k \in 0..MaxValues}], MaxAttrs)}
    \cup {"adAttributes" :> PyList(xs) :
        xs \in SeqsUpTo([machineKey : AttrNames, machineValue : 1..MaxValues], MaxAttrs)}

\* The raw listings handed to format_data.
RawData == {p @@ a : p \in PriceShapes, a \in AttrShapes}

\* No format_data call was observed.
NotFormatted == [stage |-> "idle"]

-----------------------------------------------------------------------------
(* Persistence port *)

HasUrl(s, u) == \E i \in 1..Len(s) : s[i].url = u

\* The table is a multiset of rows and no operation depends on their order:
\* the rows are listed by url, a new row after the rows with its url.
Insert(s, r) ==
    LET k == Cardinality({i \in 1..Len(s) : s[i].url <= r.url})
    IN  SubSeq(s, 1, k) \o <<r>> \o SubSeq(s, k + 1, Len(s))

\* SQLAlchemyDatabase.create: IntegrityError on the unique url -> rollback, False.
SQLCreate(s, r) ==
    IF HasUrl(s, r.url)
    THEN [ok |-> FALSE, raised |-> FALSE, store |-> s]
    ELSE [ok |-> TRUE, raised |-> FALSE, store |-> Insert(s, r)]

\* An insert_one on a collection without the unique index: the document is
\* stored beside the one with its url.
MongoCreate_noindex(s, r) == [ok |-> TRUE, raised |-> FALSE, store |-> Insert(s, r)]

\* MongoDBDatabase.create: DuplicateKeyError on the unique index -> False.
MongoCreate(s, r) ==
    IF HasUrl(s, r.url)
    THEN [ok |-> FALSE, raised |-> FALSE, store |-> s]
    ELSE [ok |-> TRUE, raised |-> FALSE, store |-> Insert(s, r)]

\* An insert that replaces the stored row of its url (INSERT OR REPLACE,
\* replace_one with upsert) in place of one that is refused.
create_replaces(db, s, r) ==
    [ok |-> TRUE, raised |-> FALSE,
     store |-> Insert(SelectSeq(s, LAMBDA x : x.url # r.url), r)]

create(db, s, r) == IF db = "SQL" THEN SQLCreate(s, r) ELSE MongoCreate(s, r)

\* A query: equality on process_state, and optionally {'$lt': cutoff} on
\* last_checked_date.
Query(ps, haslt, cutoff) == [process_state |-> ps, haslt |-> haslt, cutoff |-> cutoff]

\* SQLAlchemyDatabase.read: every value is compared with ==; a dict value
\* ({'$lt': ...}) cannot be bound, the execute raises and read returns [].
SQLRead(s, q) ==
    IF q.haslt THEN {}
    ELSE {i \in 1..Len(s) : s[i].process_state = q.process_state}

\* MongoDBDatabase.read: find(query); $lt matches only set dates below the cutoff.
MongoRead(s, q) ==
    {i \in 1..Len(s) :
        /\ s[i].process_state = q.process_state
        /\ q.haslt => (s[i].last_checked_date # NoDate /\ s[i].last_checked_date < q.cutoff)}

\* The rows read(query, limit=1) may return: any one matching row, or none.
read(db, s, q) == IF db = "SQL" THEN SQLRead(s, q) ELSE MongoRead(s, q)

\* A write that sets process_state and leaves the other columns of the dict.
Merge_process_state_only(r, d) == [r EXCEPT !.process_state = d.process_state]

\* update(query={'url': u}, data): every field of data is set on every match.
Merge(r, d) == [f \in DOMAIN r |-> IF f \in DOMAIN d THEN d[f] ELSE r[f]]

\* An update that ignores its query.
update_every_row(s, u, d) == [i \in 1..Len(s) |-> Merge(s[i], d)]

update(s, u, d) == [i \in 1..Len(s) |-> IF s[i].url = u THEN Merge(s[i], d) ELSE s[i]]

\* delete(query={'url': u}): not called by the machines.
RECURSIVE delete(_, _)
delete(s, u) ==
    IF s = <<>> THEN <<>>
    ELSE IF Head(s).url = u THEN delete(Tail(s), u)
    ELSE <<Head(s)>> \o delete(Tail(s), u)

-----------------------------------------------------------------------------
(* What a handler hands back to the engine: whether it raised, the state it
   returned, the object's fields and the store after it ran.  added is the
   added_ads local of ADD_DATA (-1 in every other handler). *)

Result(raised, next, self, s) ==
    [raised |-> raised, next |-> next, self |-> self, store |-> s, added |-> -1, net |-> <<>>]

\* What a handler does on the network, in order: "delay" for a call of
\* BaseRequest.delay_action (a sleep of random.uniform(min, max) seconds),
\* "fetch" for a call of fetch_page.
Fetched(res) == [res EXCEPT !.net = <<"fetch">>]
DelayedFetch(res) == [res EXCEPT !.net = <<"delay", "fetch">>]

None == <<>>
Some(x) == <<x>>

-----------------------------------------------------------------------------
(* Pagination Crawl: KijijiPaginationFSM *)

\* What a fetch of a result page may give: an exception, a page without the
\* __NEXT_DATA__ script, a page whose script is not JSON, or a page with listings.
PageOutcomes ==
    {[kind |-> k, listings |-> <<>>] : k \in {"fail", "notag", "badjson"}}
        \cup {[kind |-> "ok", listings |-> l] : l \in PageListings}

\* KijijiPaginationFSM._initialize
PagInit ==
    [current_state |-> "GET_PAGE",
     start_page |-> DefaultStartPage,
     zero_added |-> 0,
     response |-> None,
     json_script_tag |-> None,
     extracted_listings |-> None,
     formatted_data |-> None]

Pag_GET_PAGE(self, s, rsp) ==
    Fetched(IF rsp.kind = "fail"
            THEN Result(FALSE, "END", self, s)
            ELSE Result(FALSE, "EXTRACT_LISTINGS", [self EXCEPT !.response = Some(rsp)], s))

\* An EXTRACT_LISTINGS that ends the run on a payload without listings.
Pag_EXTRACT_LISTINGS_empty_ends(self, s) ==
    LET rsp == self.response[1] IN
    IF rsp.kind # "ok" \/ rsp.listings = <<>>
    THEN Result(FALSE, "END", self, s)
    ELSE Result(FALSE, "FORMAT_DATA",
                [self EXCEPT !.json_script_tag = Some(rsp.listings),
                             !.extracted_listings = Some(rsp.listings)], s)

Pag_EXTRACT_LISTINGS(self, s) ==
    LET rsp == self.response[1] IN
    CASE rsp.kind = "badjson" ->
            \* get_ad_listing_JSON raises JSONDecodeError before any assignment
            Result(FALSE, "END", self, s)
      [] rsp.kind = "notag" ->
            \* json_script_tag = None, then None.get(...) raises in get_ads_listings
            Result(FALSE, "END", [self EXCEPT !.json_script_tag = None], s)
      [] OTHER ->
            Result(FALSE, "FORMAT_DATA",
                   [self EXCEPT !.json_script_tag = Some(rsp.listings),
                                !.extracted_listings = Some(rsp.listings)], s)

Pag_FORMAT_DATA(self, s) ==
    LET ex == self.extracted_listings[1]
        fm == [i \in 1..Len(ex) |-> format_ad_data(ex[i])]
    IN  IF \E i \in 1..Len(ex) : fm[i].raised
        THEN Result(FALSE, "END", self, s)
        ELSE Result(FALSE, "ADD_DATA",
                    [self EXCEPT !.formatted_data = Some([i \in 1..Len(ex) |-> fm[i].value])], s)

\* A loop that is left after its first create.
AddAll_first(db, s, data, added) ==
    IF data = <<>> THEN [store |-> s, added |-> added]
    ELSE LET c == create(db, s, Head(data))
         IN  [store |-> c.store, added |-> IF c.ok THEN added + 1 ELSE added]

\* A loop that gives up the page at the first refused insert.
RECURSIVE AddAll_until_refused(_, _, _, _)
AddAll_until_refused(db, s, data, added) ==
    IF data = <<>> THEN [store |-> s, added |-> added]
    ELSE LET c == create(db, s, Head(data))
         IN  IF c.ok THEN AddAll_until_refused(db, c.store, Tail(data), added + 1)
             ELSE [store |-> s, added |-> added]

\* for data in self.formatted_data: added_ads += 1 if self.database.create(data) else 0
RECURSIVE AddAll(_, _, _, _)
AddAll(db, s, data, added) ==
    IF data = <<>> THEN [store |-> s, added |-> added]
    ELSE LET c == create(db, s, Head(data))
         IN  AddAll(db, c.store, Tail(data), IF c.ok THEN added + 1 ELSE added)

\* A counter of consecutive zero-insert pages: reset by a page with an insert.
ZeroAddedAfter_reset(zero_added, added_ads) ==
    IF added_ads = 0 THEN zero_added + 1 ELSE 0

\* A rule that stops when the counter reaches the tolerance.
ZeroRule_geq(zero_added, added_ads, tol) ==
    added_ads = 0 /\ zero_added >= tol

\* A counter of all pages handled.
ZeroAddedAfter_every_page(zero_added, added_ads) ==
    zero_added + 1

\* The termination rule of ADD_DATA.
ZeroAddedAfter(zero_added, added_ads) ==
    IF added_ads = 0 THEN zero_added + 1 ELSE zero_added

ZeroRule(zero_added, added_ads, tol) ==
    added_ads = 0 /\ zero_added > tol

Pag_ADD_DATA(self, db, s, tol) ==
    LET a == AddAll(db, s, self.formatted_data[1], 0)
        z == ZeroAddedAfter(self.zero_added, a.added)
        self2 == [self EXCEPT !.zero_added = z]
    IN  [Result(FALSE, IF ZeroRule(z, a.added, tol) THEN "END" ELSE "INC_PAGE", self2, a.store)
            EXCEPT !.added = a.added]

\* An INC_PAGE that asks for the same page again.
Pag_INC_PAGE_same_page(self, s) ==
    Result(FALSE, "GET_PAGE", self, s)

Pag_INC_PAGE(self, s) ==
    Result(FALSE, "GET_PAGE", [self EXCEPT !.start_page = self.start_page + 1], s)

\* The methods of KijijiPaginationFSM named after a state.
PagMethods == {"GET_PAGE", "EXTRACT_LISTINGS", "FORMAT_DATA", "ADD_DATA", "INC_PAGE"}

PagHandler(self, db, s, tol, rsp) ==
    CASE self.current_state = "GET_PAGE" -> Pag_GET_PAGE(self, s, rsp)
      [] self.current_state = "EXTRACT_LISTINGS" -> Pag_EXTRACT_LISTINGS(self, s)
      [] self.current_state = "FORMAT_DATA" -> Pag_FORMAT_DATA(self, s)
      [] self.current_state = "ADD_DATA" -> Pag_ADD_DATA(self, db, s, tol)
      [] self.current_state = "INC_PAGE" -> Pag_INC_PAGE(self, s)
      [] OTHER -> Result(TRUE, "END", self, s)

-----------------------------------------------------------------------------
(* Completion Crawl: KijijiCompletionFSM *)

\* What a fetch of a detail page may give: an exception ("fail": HTTP error
\* status, timeout, retries exhausted), a page with a "listing removed" phrase
\* ("dead"), a page without a parsable window.__data script ("notag"), a page
\* whose data has no config.VIP entry ("empty"), a page with a payload
\* ("payload"), or one with a payload that format_data cannot format ("badfmt").
Detail(k, u) == [kind |-> k, seoUrl |-> u]

DetailOutcomes ==
    {Detail(k, 1) : k \in {"fail", "dead", "notag", "empty", "badfmt"}}
        \cup {Detail("payload", u) : u \in URLS}

\* KijijiScraper.is_link_dead
is_link_dead(rsp) == rsp.kind = "dead"

\* KijijiCompletionFSM._initialize.  extracted_json and formatted_ad_data are
\* first assigned by their handlers; <<>> stands for unset, None and {}.
CompInit ==
    [current_state |-> "FETCH_AD",
     ad |-> None,
     response |-> None,
     extracted_json |-> None,
     formatted_ad_data |-> None]

\* pick: the row read(..., limit=1) returned, 0 when it returned [].
Comp_FETCH_AD(self, s, pick) ==
    IF pick = 0
    THEN Result(FALSE, "END", [self EXCEPT !.ad = None], s)
    ELSE Result(FALSE, "GOTO_LINK", [self EXCEPT !.ad = Some(s[pick])], s)

\* A GOTO_LINK that does not apply the dead-page heuristic.
Comp_GOTO_LINK_no_heuristic(self, s, rsp) ==
    DelayedFetch(IF rsp.kind = "fail"
                 THEN Result(TRUE, "END", self, s)
                 ELSE Result(FALSE, "extract_ad_JSON", [self EXCEPT !.response = Some(rsp)], s))

\* A GOTO_LINK that fetches only when it holds no response yet.
Comp_GOTO_LINK_cached(self, s, rsp) ==
    DelayedFetch(
        IF self.response # None
        THEN Result(FALSE, IF is_link_dead(self.response[1]) THEN "DEAD_AD" ELSE "extract_ad_JSON",
                    self, s)
        ELSE IF rsp.kind = "fail"
        THEN Result(TRUE, "END", self, s)
        ELSE Result(FALSE, IF is_link_dead(rsp) THEN "DEAD_AD" ELSE "extract_ad_JSON",
                    [self EXCEPT !.response = Some(rsp)], s))

Comp_GOTO_LINK(self, s, rsp) ==
    DelayedFetch(IF rsp.kind = "fail"
                 THEN Result(TRUE, "END", self, s)
                 ELSE Result(FALSE, IF is_link_dead(rsp) THEN "DEAD_AD" ELSE "extract_ad_JSON",
                             [self EXCEPT !.response = Some(rsp)], s))

\* An extract_ad_JSON that closes the record when its page has no payload.
Comp_extract_ad_JSON_closes(self, s) ==
    LET rsp == self.response[1] IN
    IF rsp.kind \in {"notag", "empty"}
    THEN Result(FALSE, "END", self,
                update(s, self.ad[1].url, [self.ad[1] EXCEPT !.process_state = "COMPLETED"]))
    ELSE Result(FALSE, "FORMAT_DATA",
                [self EXCEPT !.extracted_json =
                     Some([seoUrl |-> rsp.seoUrl, src |-> "detail",
                           wellformed |-> rsp.kind = "payload"])], s)

Comp_extract_ad_JSON(self, s) ==
    LET rsp == self.response[1] IN
    CASE rsp.kind = "notag" -> Result(TRUE, "END", self, s)
      [] rsp.kind = "empty" -> Result(FALSE, "END", [self EXCEPT !.extracted_json = None], s)
      [] OTHER ->
            Result(FALSE, "FORMAT_DATA",
                   [self EXCEPT !.extracted_json =
                        Some([seoUrl |-> rsp.seoUrl, src |-> "detail",
                              wellformed |-> rsp.kind = "payload"])], s)

\* A FORMAT_DATA whose return expression raises.
Comp_FORMAT_DATA_raises(self, s) == Result(TRUE, "END", self, s)

Comp_FORMAT_DATA(self, s) ==
    LET f == format_ad_data(self.extracted_json[1]) IN
    IF f.raised
    THEN Result(TRUE, "END", self, s)
    ELSE Result(FALSE, "UPDATE_AD", [self EXCEPT !.formatted_ad_data = Some(f.value)], s)

\* An UPDATE_AD that writes the url of the detail payload.
UpdateAdData_payload_url(formatted, ad, t) ==
    [formatted EXCEPT !.process_state = "COMPLETED",
                      !.state = "ACTIVE",
                      !.last_checked_date = t]

\* An UPDATE_AD dict that leaves process_state as the formatter set it.
UpdateAdData_keeps_new(formatted, ad, t) ==
    [formatted EXCEPT !.url = ad.url,
                      !.state = "ACTIVE",
                      !.last_checked_date = t]

\* The dict UPDATE_AD writes.
UpdateAdData(formatted, ad, t) ==
    [formatted EXCEPT !.url = ad.url,
                      !.process_state = "COMPLETED",
                      !.state = "ACTIVE",
                      !.last_checked_date = t]

Comp_UPDATE_AD(self, s, t) ==
    LET ad == UpdateAdData(self.formatted_ad_data[1], self.ad[1], t)
    IN  Result(FALSE, "FETCH_AD", self, update(s, self.ad[1].url, ad))

\* A dead branch that forgets removal_date.
DeadAdData_no_removal(ad, t) ==
    [ad EXCEPT !.process_state = "COMPLETED",
               !.state = "DEAD",
               !.last_checked_date = t]

\* A dead branch that keeps the removal_date of the first detection.
DeadAdData_first_removal(ad, t) ==
    [ad EXCEPT !.process_state = "COMPLETED",
               !.state = "DEAD",
               !.last_checked_date = t,
               !.removal_date = IF ad.removal_date = NoDate THEN t ELSE ad.removal_date]

\* The dict DEAD_AD and the dead branch of CHECK_LINK write.
DeadAdData(ad, t) ==
    [ad EXCEPT !.process_state = "COMPLETED",
               !.state = "DEAD",
               !.last_checked_date = t,
               !.removal_date = t]

\* A DEAD_AD that removes the record instead of marking it.
Comp_DEAD_AD_deletes(self, s, t) ==
    Result(FALSE, "FETCH_AD", self, delete(s, self.ad[1].url))

Comp_DEAD_AD(self, s, t) ==
    Result(FALSE, "FETCH_AD", self, update(s, self.ad[1].url, DeadAdData(self.ad[1], t)))

CompMethods ==
    {"FETCH_AD", "GOTO_LINK", "extract_ad_JSON", "FORMAT_DATA", "DEAD_AD", "UPDATE_AD"}

CompHandler(self, s, t, pick, rsp) ==
    CASE self.current_state = "FETCH_AD" -> Comp_FETCH_AD(self, s, pick)
      [] self.current_state = "GOTO_LINK" -> Comp_GOTO_LINK(self, s, rsp)
      [] self.current_state = "extract_ad_JSON" -> Comp_extract_ad_JSON(self, s)
      [] self.current_state = "FORMAT_DATA" -> Comp_FORMAT_DATA(self, s)
      [] self.current_state = "UPDATE_AD" -> Comp_UPDATE_AD(self, s, t)
      [] self.current_state = "DEAD_AD" -> Comp_DEAD_AD(self, s, t)
      [] OTHER -> Result(TRUE, "END", self, s)

-----------------------------------------------------------------------------
(* Dead-Link Crawl: KijijiLinkCheckFSM *)

DLInit == [current_state |-> "FETCH_AD", ad |-> None, response |-> None]

DL_FETCH_AD(self, s, pick) ==
    IF pick = 0
    THEN Result(FALSE, "END", [self EXCEPT !.ad = None], s)
    ELSE Result(FALSE, "CHECK_LINK", [self EXCEPT !.ad = Some(s[pick])], s)

\* A live branch that writes the record back as it was read.
AliveAdData_unrefreshed(ad, t) == ad

\* A live branch that also marks the record ACTIVE.
AliveAdData_reactivates(ad, t) == [ad EXCEPT !.last_checked_date = t, !.state = "ACTIVE"]

\* The dict the live branch of CHECK_LINK writes.
AliveAdData(ad, t) == [ad EXCEPT !.last_checked_date = t]

\* A CHECK_LINK that takes a failed fetch for a dead link.
DL_CHECK_LINK_fail_is_dead(self, s, t, rsp) ==
    DelayedFetch(
        LET self2 == [self EXCEPT !.response = Some(rsp)]
            ad == IF rsp.kind = "fail" \/ is_link_dead(rsp) THEN DeadAdData(self.ad[1], t)
                  ELSE AliveAdData(self.ad[1], t)
        IN  Result(FALSE, "FETCH_AD", self2, update(s, self.ad[1].url, ad)))

DL_CHECK_LINK(self, s, t, rsp) ==
    DelayedFetch(
        IF rsp.kind = "fail"
        THEN Result(TRUE, "END", self, s)
        ELSE LET self2 == [self EXCEPT !.response = Some(rsp)]
                 ad == IF is_link_dead(rsp) THEN DeadAdData(self.ad[1], t)
                       ELSE AliveAdData(self.ad[1], t)
             IN  Result(FALSE, "FETCH_AD", self2, update(s, self.ad[1].url, ad)))

\* KijijiLinkCheckFSM has no method UPDATE_AD; its END method is never dispatched.
DLMethods == {"FETCH_AD", "CHECK_LINK", "END"}

DLHandler(self, s, t, pick, rsp) ==
    CASE self.current_state = "FETCH_AD" -> DL_FETCH_AD(self, s, pick)
      [] self.current_state = "CHECK_LINK" -> DL_CHECK_LINK(self, s, t, rsp)
      [] OTHER -> Result(TRUE, "END", self, s)

\* The queries of the two FETCH_AD handlers.
\* A Dead-Link query that selects the records Completion works on.
DLQuery_new(t) == Query("NEW", FALSE, 0)

CompQuery == Query("NEW", FALSE, 0)
DLQuery(t) == Query("COMPLETED", TRUE, t - StaleWindow)

\* ad_list[0] if ad_list else None, for read(query, limit=1).
Picks(db, s, q) == IF read(db, s, q) = {} THEN {0} ELSE read(db, s, q)

-----------------------------------------------------------------------------
(* FSM engine: BaseFSM *)

\* A plain BaseFSM: States = BaseState, no method named INITIAL.
BaseInit == [current_state |-> "INITIAL"]
BaseMethods == {}

\* BaseFSM.fsm: dispatch on the name of the current state; a missing method
\* or a raising method gives END.  res is what the method does when called.
\* handler_ret is the value the method returned; propagated says that an
\* exception leaves fsm (the try around method() lets none out).
fsm_nocatch(self, s, methods, res) ==
    IF self.current_state \notin methods
    THEN [next |-> "END", self |-> self, store |-> s, calls |-> 0, raised |-> FALSE,
          propagated |-> FALSE, handler_ret |-> "none", added |-> -1, net |-> <<>>]
    ELSE [next |-> res.next, self |-> res.self, store |-> res.store, calls |-> 1,
          raised |-> res.raised, propagated |-> res.raised,
          handler_ret |-> IF res.raised THEN "raise" ELSE res.next,
          added |-> IF res.raised THEN -1 ELSE res.added, net |-> res.net]

fsm(self, s, methods, res) ==
    IF self.current_state \notin methods
    THEN [next |-> "END", self |-> self, store |-> s, calls |-> 0, raised |-> FALSE,
          propagated |-> FALSE, handler_ret |-> "none", added |-> -1, net |-> <<>>]
    ELSE IF res.raised
    THEN [next |-> "END", self |-> res.self, store |-> res.store, calls |-> 1,
          raised |-> TRUE, propagated |-> FALSE, handler_ret |-> "raise", added |-> -1,
          net |-> res.net]
    ELSE [next |-> res.next, self |-> res.self, store |-> res.store, calls |-> 1,
          raised |-> FALSE, propagated |-> FALSE, handler_ret |-> res.next,
          added |-> res.added, net |-> res.net]

\* BaseFSM.run(continuous=False): one pass of the while loop.  An exception
\* out of fsm is caught, the loop breaks and run returns True.
run_stale(self, s, methods, res) ==
    IF self.current_state = "END"
    THEN [self |-> self, store |-> s, returned |-> TRUE, calls |-> 0, raised |-> FALSE,
          handler_ret |-> "none", added |-> -1, net |-> <<>>]
    ELSE LET f == fsm(self, s, methods, res)
         IN  [self |-> [f.self EXCEPT !.current_state = f.next],
              store |-> f.store,
              returned |-> (self.current_state = "END"),
              calls |-> f.calls,
              raised |-> f.raised,
              handler_ret |-> f.handler_ret,
              added |-> f.added,
              net |-> f.net]

\* BaseFSM.run with an `if' in place of its `while': one pass, then the
\* "FSM run completed" return.
run_single_pass(self, s, methods, res) ==
    IF self.current_state = "END"
    THEN [self |-> self, store |-> s, returned |-> TRUE, calls |-> 0, raised |-> FALSE,
          handler_ret |-> "none", added |-> -1, net |-> <<>>]
    ELSE LET f == fsm(self, s, methods, res)
         IN  [self |-> [f.self EXCEPT !.current_state = f.next],
              store |-> f.store,
              returned |-> TRUE,
              calls |-> f.calls,
              raised |-> f.raised,
              handler_ret |-> f.handler_ret,
              added |-> f.added,
              net |-> f.net]

run(self, s, methods, res) ==
    IF self.current_state = "END"
    THEN [self |-> self, store |-> s, returned |-> TRUE, calls |-> 0, raised |-> FALSE,
          handler_ret |-> "none", added |-> -1, net |-> <<>>]
    ELSE LET f == fsm(self, s, methods, res)
         IN  IF f.propagated
             THEN [self |-> f.self, store |-> f.store, returned |-> TRUE,
                   calls |-> f.calls, raised |-> f.raised,
                   handler_ret |-> f.handler_ret, added |-> -1, net |-> f.net]
             ELSE [self |-> [f.self EXCEPT !.current_state = f.next],
                   store |-> f.store,
                   returned |-> (f.next = "END"),
                   calls |-> f.calls,
                   raised |-> f.raised,
                   handler_ret |-> f.handler_ret,
                   added |-> f.added,
                   net |-> f.net]

\* What is recorded of one run(continuous=False) call on machine m.
Observe(m, from, r) ==
    [m |-> m, from |-> from, calls |-> r.calls, raised |-> r.raised,
     handler_ret |-> r.handler_ret, returned |-> r.returned, net |-> r.net]

NoStep ==
    [m |-> "none", from |-> "none", calls |-> 0, raised |-> FALSE,
     handler_ret |-> "none", returned |-> FALSE, net |-> <<>>]

-----------------------------------------------------------------------------
(* Steps of the machines *)

HistInit == [pages |-> 0, zero_pages |-> 0, zero_run |-> 0, added |-> -1]

\* After a call of ADD_DATA that counted added successful inserts: the pages
\* added so far, those with zero inserts, those with zero inserts in an
\* unbroken row up to this one, and the count of this page.
HistAfter(h, added) ==
    IF added < 0 THEN h
    ELSE IF added = 0
    THEN [pages |-> h.pages + 1, zero_pages |-> h.zero_pages + 1,
          zero_run |-> h.zero_run + 1, added |-> 0]
    ELSE [pages |-> h.pages + 1, zero_pages |-> h.zero_pages,
          zero_run |-> 0, added |-> added]

\* The schema of the store: whether the table (collection) exists and
\* whether url carries the unique constraint (unique index).
Absent == [exists |-> FALSE, unique_url |-> FALSE]
Provisioned == [exists |-> TRUE, unique_url |-> TRUE]

\* The machines in the order of the scrapers list of Main.run.
Order == <<"pagination", "completion", "dead_link_check">>
Machines == {Order[i] : i \in 1..Len(Order)}

\* A keyword argument of a constructor: missing or None, empty, or set.
Presence == {"None", "empty", "set"}

\* not x
Falsy(x) == x # "set"

\* The configuration: the machines to run (do_pagination, do_completion,
\* do_dead_link) and the keyword arguments given to their constructors.
GoodKwargs ==
    [do |-> Machines, url_settings |-> "set", base_url |-> "set", db_config |-> "set"]

\* Main.run at its first line: nothing constructed, every flag False.
MainInit(cfg) ==
    [config |-> cfg, pc |-> "construct", pos |-> 1,
     start |-> [m \in Machines |-> FALSE],
     done |-> [m \in Machines |-> FALSE]]

\* Main.run at the test of its outer while loop.
Looping(mn) == [mn EXCEPT !.pc = "while", !.pos = 0]

\* The state after Main.run has constructed the machines of the set ms, with
\* tolerance tol, on the store s0.
Constructed(ms, tol, s0) ==
    /\ store = s0
    /\ db_type \in {"SQL", "mongodb"}
    /\ max_zero_added = tol
    /\ now = 0
    /\ pag = PagInit
    /\ comp = CompInit
    /\ dl = DLInit
    /\ base = BaseInit
    /\ scrapers = ms
    /\ hist = HistInit
    /\ main = Looping(MainInit([GoodKwargs EXCEPT !.do = ms \cap Machines]))
    /\ schema = Provisioned
    /\ rent_ad = NotFormatted

\* The run(continuous=False) call a step makes on each machine: rsp is what
\* the site answers if the handler fetches, pick the row its read returns.
PagRun(rsp) ==
    run(pag, store, PagMethods, PagHandler(pag, db_type, store, max_zero_added, rsp))

CompRun(pick, rsp) ==
    run(comp, store, CompMethods, CompHandler(comp, store, now, pick, rsp))

DLRun(pick, rsp) ==
    run(dl, store, DLMethods, DLHandler(dl, store, now, pick, rsp))

BaseRun == run(base, store, BaseMethods, Result(TRUE, "END", base, store))

\* One step() of the pagination machine.
PagStep(rsp) ==
    /\ "pagination" \in scrapers
    /\ ~(pag.current_state = "INC_PAGE" /\ pag.start_page >= MaxPage)
    /\ pag' = PagRun(rsp).self
    /\ store' = PagRun(rsp).store
    /\ hist' = HistAfter(hist, PagRun(rsp).added)
    /\ UNCHANGED <<rent_ad, db_type, max_zero_added, now, comp, dl, base, scrapers, schema>>

\* One step() of the completion machine.
CompStep(pick, rsp) ==
    /\ "completion" \in scrapers
    /\ comp' = CompRun(pick, rsp).self
    /\ store' = CompRun(pick, rsp).store
    /\ UNCHANGED <<rent_ad, db_type, max_zero_added, now, pag, dl, base, scrapers, hist, schema>>

\* One step() of the dead-link machine.
DLStep(pick, rsp) ==
    /\ "dead_link_check" \in scrapers
    /\ dl' = DLRun(pick, rsp).self
    /\ store' = DLRun(pick, rsp).store
    /\ UNCHANGED <<rent_ad, db_type, max_zero_added, now, pag, comp, base, scrapers, hist, schema>>

\* One step() of a plain BaseFSM.
BaseStep ==
    /\ "base" \in scrapers
    /\ base' = BaseRun.self
    /\ store' = BaseRun.store
    /\ UNCHANGED <<rent_ad, db_type, max_zero_added, now, pag, comp, dl, scrapers, hist, schema>>

\* Time passes between steps.
Tick ==
    /\ now < MaxTime
    /\ now' = now + 1
    /\ UNCHANGED <<rent_ad, store, db_type, max_zero_added, pag, comp, dl, base, scrapers, last, hist,
                   main, schema>>

\* Main.run steps a machine until it is done before it starts the next one,
\* in the order pagination, completion, dead_link_check.
Done(m) ==
    CASE m = "pagination" -> pag.current_state = "END"
      [] m = "completion" -> comp.current_state = "END"
      [] m = "dead_link_check" -> dl.current_state = "END"
      [] OTHER -> base.current_state = "END"

Before(m) ==
    CASE m = "pagination" -> {}
      [] m = "completion" -> {"pagination"}
      [] m = "dead_link_check" -> {"pagination", "completion"}
      [] OTHER -> {}

Turn(m) == m \in scrapers /\ ~Done(m) /\ \A m2 \in Before(m) \cap scrapers : Done(m2)

\* The answers of the site that matter in the current state of a machine.
FailedPage == [kind |-> "fail", listings |-> <<>>]

PageAnswers(outcomes) == IF pag.current_state = "GET_PAGE" THEN outcomes ELSE {FailedPage}

DetailAnswers(self, fetching, outcomes) ==
    IF self.current_state = fetching THEN outcomes ELSE {Detail("fail", 1)}

CompPicks == IF comp.current_state = "FETCH_AD" THEN Picks(db_type, store, CompQuery) ELSE {0}

DLPicks == IF dl.current_state = "FETCH_AD" THEN Picks(db_type, store, DLQuery(now)) ELSE {0}

\* Result pages with at most one well-formed listing.
ShortPages ==
    {[kind |-> k, listings |-> <<>>] : k \in {"fail", "ok"}}
        \cup {[kind |-> "ok", listings |-> <<r>>] : r \in RawListings}

\* An exception, a dead page, a page with the payload of the listing of url 1.
LinkOutcomes == {Detail("fail", 1), Detail("dead", 1), Detail("payload", 1)}

\* Result pages with at most one listing, and the faulty pages.
FaultyPages ==
    ShortPages \cup {[kind |-> k, listings |-> <<>>] : k \in {"notag", "badjson"}}
        \cup {[kind |-> "ok", listings |-> <<BadRaw>>]}

\* The stores an earlier run may have left: per url no row, a row as
\* ADD_DATA inserts it, as UPDATE_AD leaves it or as DEAD_AD leaves it.
SeedRows(u) ==
    {format_data(Raw(u, "listing")),
     UpdateAdData(format_data(Raw(u, "detail")), [url |-> u], 0),
     DeadAdData(format_data(Raw(u, "listing")), 0)}

RECURSIVE SeedsFrom(_)
SeedsFrom(u) ==
    IF u > MaxUrl THEN {<<>>}
    ELSE {pre \o rest : pre \in {<<>>} \cup {<<r>> : r \in SeedRows(u)}, rest \in SeedsFrom(u + 1)}

SeedStores == SeedsFrom(1)

\* The stores earlier pagination runs may have left: NEW rows only.
NewStores ==
    {s \in SeedStores : \A i \in 1..Len(s) : s[i] = format_data(Raw(s[i].url, "listing"))}

-----------------------------------------------------------------------------
(* Spec: the three machines stepped in any order on one store *)

Init ==
    /\ Constructed({"pagination", "completion", "dead_link_check"}, 0, <<>>)
    /\ last = NoStep

Pag == \E rsp \in PageAnswers(ShortPages) : PagStep(rsp) /\ UNCHANGED <<last, main>>

Comp ==
    \E pick \in CompPicks : \E rsp \in DetailAnswers(comp, "GOTO_LINK", LinkOutcomes) :
        CompStep(pick, rsp) /\ UNCHANGED <<last, main>>

DL ==
    \E pick \in DLPicks : \E rsp \in DetailAnswers(dl, "CHECK_LINK", LinkOutcomes) :
        DLStep(pick, rsp) /\ UNCHANGED <<last, main>>

Next == Pag \/ Comp \/ DL \/ Tick

Spec == Init /\ [][Next]_vars

-----------------------------------------------------------------------------
(* SpecEngine: step() observed on each machine driven alone, on a store an
   earlier run has left. *)

InitEngine ==
    \E m \in {"pagination", "completion", "dead_link_check", "base"} : \E s0 \in SeedStores :
        /\ Constructed({m}, DefaultMaxZeroAdded, s0)
        /\ last = NoStep

PagObserved(outcomes) ==
    \E rsp \in PageAnswers(outcomes) :
        /\ Turn("pagination")
        /\ PagStep(rsp)
        /\ last' = Observe("pagination", pag.current_state, PagRun(rsp))
        /\ UNCHANGED main

CompObserved(outcomes) ==
    \E pick \in CompPicks : \E rsp \in DetailAnswers(comp, "GOTO_LINK", outcomes) :
        /\ Turn("completion")
        /\ CompStep(pick, rsp)
        /\ last' = Observe("completion", comp.current_state, CompRun(pick, rsp))
        /\ UNCHANGED main

DLObserved(outcomes) ==
    \E pick \in DLPicks : \E rsp \in DetailAnswers(dl, "CHECK_LINK", outcomes) :
        /\ Turn("dead_link_check")
        /\ DLStep(pick, rsp)
        /\ last' = Observe("dead_link_check", dl.current_state, DLRun(pick, rsp))
        /\ UNCHANGED main

BaseObserved ==
    /\ Turn("base")
    /\ BaseStep
    /\ last' = Observe("base", base.current_state, BaseRun)
    /\ UNCHANGED main

NextEngine ==
    \/ PagObserved(FaultyPages)
    \/ CompObserved(DetailOutcomes)
    \/ DLObserved(DetailOutcomes)
    \/ BaseObserved
    \/ Tick

SpecEngine == InitEngine /\ [][NextEngine]_vars

-----------------------------------------------------------------------------
(* The engine: claims C1 and C2, checked under SpecEngine *)

\* The current state and the methods of machine m.
StateOf(m) ==
    CASE m = "pagination" -> pag.current_state
      [] m = "completion" -> comp.current_state
      [] m = "dead_link_check" -> dl.current_state
      [] OTHER -> base.current_state

MethodsOf(m) ==
    CASE m = "pagination" -> PagMethods
      [] m = "completion" -> CompMethods
      [] m = "dead_link_check" -> DLMethods
      [] OTHER -> BaseMethods

C2_FaultForcesEnd ==
    (last.m # "none" /\ last.from # "END" /\ (last.calls = 0 \/ last.raised)) =>
        /\ StateOf(last.m) = "END"
        /\ last.returned
        /\ last.calls <= 1

\* GOTO_LINK raised (the fetch failed) and the completion machine is at END.
C2_Witness ==
    /\ last.m = "completion"
    /\ last.from = "GOTO_LINK"
    /\ last.raised
    /\ comp.current_state = "END"

-----------------------------------------------------------------------------
(* SpecStore: the operations of the persistence port called directly, in any
   order, on a store an earlier run has left. *)

\* The records a caller may hand to create and update.
StoreRecs == UNION {SeedRows(u) : u \in URLS}

RowsOf(s, u) == {s[i] : i \in {j \in 1..Len(s) : s[j].url = u}}

\* What is recorded of one call of the port, and of the call before it.
NoCall ==
    [op |-> "none", url |-> 0, ok |-> FALSE, raised |-> FALSE, fresh |-> FALSE,
     rec |-> <<>>, before |-> <<>>,
     prev_op |-> "none", prev_url |-> 0, prev_ok |-> FALSE, prev_raised |-> FALSE,
     prev_fresh |-> FALSE]

Called(op, u, ok, raised, rec) ==
    [op |-> op, url |-> u, ok |-> ok, raised |-> raised, fresh |-> ~HasUrl(store, u),
     rec |-> rec, before |-> store,
     prev_op |-> last.op, prev_url |-> last.url, prev_ok |-> last.ok,
     prev_raised |-> last.raised, prev_fresh |-> last.fresh]

InitStore ==
    \E s0 \in SeedStores :
        /\ Constructed({}, DefaultMaxZeroAdded, s0)
        /\ last = NoCall

CreateCall ==
    \E r \in StoreRecs :
        LET c == create(db_type, store, r) IN
        /\ store' = c.store
        /\ last' = Called("create", r.url, c.ok, c.raised, Some(r))
        /\ UNCHANGED <<rent_ad, db_type, max_zero_added, now, pag, comp, dl, base, scrapers, hist,
                       main, schema>>

UpdateCall ==
    \E r \in StoreRecs :
        /\ store' = update(store, r.url, r)
        /\ last' = Called("update", r.url, TRUE, FALSE, Some(r))
        /\ UNCHANGED <<rent_ad, db_type, max_zero_added, now, pag, comp, dl, base, scrapers, hist,
                       main, schema>>

DeleteCall ==
    \E u \in URLS :
        /\ store' = delete(store, u)
        /\ last' = Called("delete", u, TRUE, FALSE, None)
        /\ UNCHANGED <<rent_ad, db_type, max_zero_added, now, pag, comp, dl, base, scrapers, hist,
                       main, schema>>

NextStore == CreateCall \/ UpdateCall \/ DeleteCall

SpecStore == InitStore /\ [][NextStore]_vars

-----------------------------------------------------------------------------
(* The persistence port: claim C3, checked under SpecStore *)

\* Two create calls in a row with the same url.
CreatedTwice ==
    last.op = "create" /\ last.prev_op = "create" /\ last.prev_url = last.url

\* C3: of two create calls in a row with the same url, on either backend, the
\* first returns true when the url was not stored, the second returns false,
\* neither raises, and the second leaves the store, and so the record stored
\* under that url, as it was.
C3_SecondCreateRefused ==
    CreatedTwice =>
        /\ last.prev_fresh => last.prev_ok
        /\ ~last.ok
        /\ ~last.raised /\ ~last.prev_raised
        /\ store = last.before
        /\ RowsOf(store, last.url) = RowsOf(last.before, last.url)

\* The document backend refused a second create whose record differs from the
\* stored one, after a first create that stored a new url.
C3_Witness ==
    /\ CreatedTwice
    /\ db_type = "mongodb"
    /\ last.prev_fresh /\ last.prev_ok
    /\ ~last.ok
    /\ RowsOf(store, last.url) # {last.rec[1]}

-----------------------------------------------------------------------------
(* The stored records: claims C4 and C5, checked under Spec *)

\* C4: whatever steps the three machines have taken on the shared store, no
\* two stored records have the same url.
C4_UrlUnique ==
    \A i, j \in 1..Len(store) : store[i].url = store[j].url => i = j

\* Two records are stored, the second was completed by UPDATE_AD from a
\* payload that carries the url of the first, and the last page ADD_DATA saw
\* listed a stored url only.
C4_Witness ==
    /\ Len(store) = 2
    /\ store[1].url = 1
    /\ store[2].url = 2 /\ store[2].process_state = "COMPLETED" /\ store[2].title = "detail"
    /\ comp.formatted_ad_data # None /\ comp.formatted_ad_data[1].url = 1
    /\ hist.pages = 3 /\ hist.added = 0
    /\ pag.formatted_data # None /\ pag.formatted_data[1] # <<>>

\* C5: whatever steps the three machines have taken, a stored record has a
\* removal_date exactly when its state is DEAD.
C5_RemovalDateIffDead ==
    \A i \in 1..Len(store) : (store[i].removal_date # NoDate) <=> (store[i].state = "DEAD")

\* A record inserted by ADD_DATA, a record completed by UPDATE_AD, and a
\* record marked DEAD that the live branch of CHECK_LINK has since refreshed.
C5_Witness ==
    /\ Len(store) = 2
    /\ store[1].state = "DEAD" /\ store[1].removal_date < store[1].last_checked_date
    /\ store[2].state = "ACTIVE" /\ store[2].process_state = "COMPLETED"
    /\ dl.response # None /\ ~is_link_dead(dl.response[1])

-----------------------------------------------------------------------------
(* SpecPag: the pagination machine driven alone, with any tolerance up to
   MaxTol, against any sequence of result pages, on a store earlier
   pagination runs have left. *)

InitPag ==
    \E tol \in 0..MaxTol : \E s0 \in NewStores :
        /\ Constructed({"pagination"}, tol, s0)
        /\ last = NoStep

NextPag == PagObserved(PageOutcomes)

SpecPag == InitPag /\ [][NextPag]_vars

-----------------------------------------------------------------------------
(* The termination rule: claims C6 and C7, checked under SpecPag *)

\* The step just taken ran ADD_DATA.
AfterAddData == last.m = "pagination" /\ last.from = "ADD_DATA"

\* ADD_DATA has just sent the machine to END.
EndedByAddData == AfterAddData /\ pag.current_state = "END"

\* C6, as stated: ADD_DATA sends the machine to END exactly on the page that
\* is the (T+1)-th of an unbroken row of zero-insert pages.
C6_StopsAtEndOfRun ==
    AfterAddData => (pag.current_state = "END" <=> hist.zero_run = max_zero_added + 1)

\* C6, amended: ADD_DATA sends the machine to END exactly on the (T+1)-th
\* page with zero successful inserts since the machine was constructed,
\* whether or not those pages follow one another; so a row of T+1 zero-insert
\* pages stops the machine at its (T+1)-th page only when no zero-insert page
\* came before the row.
C6_StopsAtCountedPage ==
    /\ AfterAddData =>
           (pag.current_state = "END" <=>
                (hist.added = 0 /\ hist.zero_pages = max_zero_added + 1))
    /\ hist.zero_pages <= max_zero_added + 1
    /\ (AfterAddData /\ hist.zero_run = hist.zero_pages) =>
           (pag.current_state = "END" <=> hist.zero_run = max_zero_added + 1)

\* Tolerance 2: three pages in a row listed stored urls only, and the machine
\* stopped in ADD_DATA of the third.
C6_Witness ==
    /\ max_zero_added = 2
    /\ EndedByAddData
    /\ pag.start_page = 3
    /\ hist.pages = 3 /\ hist.zero_run = 3
    /\ pag.formatted_data[1] # <<>>

\* C7, as stated: ADD_DATA sends the machine to END only when more than T
\* pages in an unbroken row, ending with this one, had zero successful inserts.
C7_CountsConsecutive ==
    EndedByAddData => hist.zero_run > max_zero_added

\* C7, amended: the counter is the number of zero-insert pages since the
\* machine was constructed, a page with an insert leaves it as it is, and
\* ADD_DATA sends the machine to END only on a zero-insert page that makes
\* that number exceed T.
C7_CountsAllZeroPages ==
    /\ pag.zero_added = hist.zero_pages
    /\ EndedByAddData => (hist.added = 0 /\ hist.zero_pages > max_zero_added)

\* Tolerance 1: a zero-insert page, a page with an insert, a zero-insert page,
\* and the machine stopped in ADD_DATA of the third.
C7_Witness ==
    /\ max_zero_added = 1
    /\ EndedByAddData
    /\ hist.pages = 3 /\ hist.zero_pages = 2 /\ hist.zero_run = 1

-----------------------------------------------------------------------------
(* SpecE2E: Main.run drives the pagination machine and then the completion
   machine, with the default tolerance, on an empty store; the first result
   page lists NumNew new listings and every later page lists none; every
   detail fetch succeeds and gives a payload or a dead page. *)

NumNew == 5    \* listings on the first result page

FirstPage == [kind |-> "ok", listings |-> [i \in 1..NumNew |-> Raw(i, "listing")]]
EmptyPage == [kind |-> "ok", listings |-> <<>>]

\* The page the site serves for the page number the machine asks for.
PageServed == IF pag.start_page = DefaultStartPage THEN FirstPage ELSE EmptyPage

\* The detail pages of a reachable site.
ReachableDetails == {Detail("dead", 1)} \cup {Detail("payload", u) : u \in URLS}

InitE2E ==
    /\ Constructed({"pagination", "completion"}, DefaultMaxZeroAdded, <<>>)
    /\ last = NoStep

NextE2E == PagObserved({PageServed}) \/ CompObserved(ReachableDetails)

SpecE2E == InitE2E /\ [][NextE2E]_vars

-----------------------------------------------------------------------------
(* The end-to-end scenario: claims C8 and C9, checked under SpecE2E *)

\* The store holds exactly the NumNew listings of the first page.
HoldsTheListings ==
    /\ Len(store) = NumNew
    /\ {store[i].url : i \in 1..Len(store)} = 1..NumNew

\* The page on which tolerance 1 ends the scenario: the first page and two
\* pages without listings.
LastPage == DefaultStartPage + DefaultMaxZeroAdded + 1

\* The handlers the pagination machine has yet to run, at most, before END.
StepsToGo(state) ==
    CASE state = "GET_PAGE" -> 5
      [] state = "EXTRACT_LISTINGS" -> 4
      [] state = "FORMAT_DATA" -> 3
      [] state = "ADD_DATA" -> 2
      [] state = "INC_PAGE" -> 1
      [] OTHER -> 0

PagRank(self) ==
    IF self.current_state = "END" THEN 0
    ELSE (LastPage - self.start_page) * Cardinality(PagMethods) + StepsToGo(self.current_state)

\* C8: from the empty store, with tolerance 1, against a first page of 5 new
\* listings followed by pages without listings, the pagination machine ends
\* at END (every step brings it nearer, and it never turns the page after
\* the third), and when it is at END the store holds exactly those 5
\* records, each NEW and ACTIVE until the completion machine works on it.
C8_PaginationFillsStore ==
    /\ [][pag' # pag => PagRank(pag') < PagRank(pag)]_vars
    /\ [](/\ PagRank(pag) >= 0
          /\ pag.current_state = "INC_PAGE" => pag.start_page < LastPage)
    /\ [](pag.current_state = "END" =>
            /\ HoldsTheListings
            /\ comp = CompInit =>
                   \A i \in 1..Len(store) :
                       store[i].process_state = "NEW" /\ store[i].state = "ACTIVE")

\* Pagination has ended on the third page and completion has not started.
C8_Witness ==
    /\ pag.current_state = "END"
    /\ pag.start_page = LastPage
    /\ comp = CompInit
    /\ Len(store) = NumNew
    /\ \A i \in 1..Len(store) : store[i].process_state = "NEW" /\ store[i].state = "ACTIVE"

\* C9: when every detail fetch gives a payload or a dead page, the completion
\* machine is at END only after FETCH_AD found no NEW record, and then every
\* record that was NEW is COMPLETED, with state ACTIVE or DEAD.
C9_CompletionLeavesNoNew ==
    comp.current_state = "END" =>
        /\ last.m = "completion" /\ last.from = "FETCH_AD"
        /\ read(db_type, store, CompQuery) = {}
        /\ HoldsTheListings
        /\ \A i \in 1..Len(store) :
               /\ store[i].process_state = "COMPLETED"
               /\ store[i].state \in {"ACTIVE", "DEAD"}

\* Completion has ended; it found dead pages and payloads.
C9_Witness ==
    /\ comp.current_state = "END"
    /\ Len(store) = NumNew
    /\ \E i \in 1..Len(store) : store[i].state = "DEAD" /\ store[i].process_state = "COMPLETED"
    /\ \E i \in 1..Len(store) : store[i].state = "ACTIVE" /\ store[i].process_state = "COMPLETED"

-----------------------------------------------------------------------------
(* Unreachable detail pages: claim C10, checked under SpecEngine *)

\* The stored record the completion machine is working on.
CurrentAdRows == RowsOf(store, comp.ad[1].url)

\* C10, as stated: once the fetch of a NEW record's detail page has failed
\* and the completion machine has stopped working on the record, the record
\* is COMPLETED with state DEAD.
C10_UnreachableMarkedDead ==
    (last.m = "completion" /\ last.from = "GOTO_LINK" /\ last.raised) =>
        \A r \in CurrentAdRows : r.process_state = "COMPLETED" /\ r.state = "DEAD"

-----------------------------------------------------------------------------
(* Extraction faults: claim C11, checked under SpecEngine *)

\* The NEW records other than the one the completion machine is working on.
OtherNewRows ==
    {i \in 1..Len(store) : store[i].process_state = "NEW" /\ store[i].url # comp.ad[1].url}

\* The step just observed was extract_ad_JSON on a detail page without a
\* usable payload.
CompExtractionFault ==
    /\ last.m = "completion" /\ last.from = "extract_ad_JSON"
    /\ comp.response[1].kind \in {"notag", "empty"}

\* The step just observed was EXTRACT_LISTINGS on a result page without a
\* usable payload.
PagExtractionFault ==
    /\ last.m = "pagination" /\ last.from = "EXTRACT_LISTINGS"
    /\ pag.response[1].kind \in {"notag", "badjson"}

\* C11, as stated: an extraction fault on one record or page does not end the
\* machine: after extract_ad_JSON met a missing or malformed payload while
\* other NEW records remain the completion machine is not at END, and after
\* EXTRACT_LISTINGS met one the pagination machine is not at END.
C11_ExtractionFaultSkips ==
    /\ (CompExtractionFault /\ OtherNewRows # {}) => comp.current_state # "END"
    /\ PagExtractionFault => pag.current_state # "END"

-----------------------------------------------------------------------------
(* Formatting failures: claim C12, checked under SpecPag *)

WellFormed(raw) == raw.wellformed

\* The step just observed was FORMAT_DATA on a page with a listing that
\* format_data cannot format.
PagFormatFault ==
    /\ last.m = "pagination" /\ last.from = "FORMAT_DATA"
    /\ \E i \in 1..Len(pag.extracted_listings[1]) : ~WellFormed(pag.extracted_listings[1][i])

\* C12, as stated: when the formatting of one listing of a page fails,
\* FORMAT_DATA skips that listing only: the machine goes on to ADD_DATA with
\* the other listings of the page formatted, and does not end.
C12_MalformedListingSkipped ==
    PagFormatFault =>
        /\ pag.current_state = "ADD_DATA"
        /\ pag.formatted_data =
               Some([i \in 1..Len(SelectSeq(pag.extracted_listings[1], WellFormed)) |->
                        format_data(SelectSeq(pag.extracted_listings[1], WellFormed)[i])])

-----------------------------------------------------------------------------
(* No physical deletion: claim C13, checked under SpecEngine *)

\* The urls of the stored records.
StoredUrls(s) == {s[i].url : i \in 1..Len(s)}

\* C13: no step of a crawl machine removes a record: across every step the
\* store keeps every url it held and holds at least as many records.
C13_NeverDeletes ==
    [][StoredUrls(store) \subseteq StoredUrls(store') /\ Len(store') >= Len(store)]_vars

\* DEAD_AD has just marked the record the completion machine had picked,
\* and the record is still stored.
C13_Witness ==
    /\ last.m = "completion" /\ last.from = "DEAD_AD"
    /\ \E r \in CurrentAdRows : r.state = "DEAD" /\ r.process_state = "COMPLETED"

-----------------------------------------------------------------------------
(* Whole-record updates: claim C16, checked under SpecEngine *)

\* The complete dicts the handler about to run passes to update.
WrittenAds ==
    (IF comp.current_state = "UPDATE_AD"
     THEN {UpdateAdData(comp.formatted_ad_data[1], comp.ad[1], now)} ELSE {})
    \cup (IF comp.current_state = "DEAD_AD" THEN {DeadAdData(comp.ad[1], now)} ELSE {})
    \cup (IF dl.current_state = "CHECK_LINK"
          THEN {DeadAdData(dl.ad[1], now), AliveAdData(dl.ad[1], now)} ELSE {})

\* C16: wherever the stepping stops, no record is partially updated: across
\* every step each stored record is either exactly as it was before the step
\* or exactly the complete dict the handler wrote, all columns together.
C16_NoPartialUpdate ==
    [][\A i \in 1..Len(store) :
          /\ RowsOf(store', store[i].url) # {}
          /\ RowsOf(store', store[i].url) \subseteq {store[i]} \cup WrittenAds]_vars

\* UPDATE_AD has just rewritten the picked record: every column changed.
C16_Witness ==
    /\ last.m = "completion" /\ last.from = "UPDATE_AD"
    /\ \E r \in CurrentAdRows :
          /\ r.process_state = "COMPLETED" /\ r.state = "ACTIVE"
          /\ r.title = "detail" /\ r.last_checked_date # NoDate
          /\ r # comp.ad[1]

-----------------------------------------------------------------------------
(* Politeness: claim C17, checked under SpecEngine *)

\* Every fetch of the sequence of network events comes right after a
\* randomized delay.
DelayBeforeEachFetch(net) ==
    \A k \in 1..Len(net) : net[k] = "fetch" => (k > 1 /\ net[k - 1] = "delay")

\* C17, as stated: in every machine a fetch is preceded by a randomized
\* delay: the handler observed last (GET_PAGE, GOTO_LINK or CHECK_LINK)
\* called delay_action right before each fetch_page.
C17_DelayBeforeEveryFetch == DelayBeforeEachFetch(last.net)

-----------------------------------------------------------------------------
(* Range queries: claim C18, checked under SpecEngine *)

\* The stored records a filter {process_state == ps} selects, and those the
\* filter {process_state == ps, last_checked_date < cutoff} selects.
Satisfying(s, ps) == {i \in 1..Len(s) : s[i].process_state = ps}

SatisfyingBefore(s, ps, cutoff) ==
    {i \in Satisfying(s, ps) : s[i].last_checked_date # NoDate /\ s[i].last_checked_date < cutoff}

\* C18, as stated: on either backend read returns exactly the records that
\* satisfy the filter, for the equality query of Completion FETCH_AD and for
\* the query of Dead-Link FETCH_AD with its less-than condition on
\* last_checked_date; with limit = 1 it gives a record iff one satisfies it.
C18_ReadMatchesFilter ==
    /\ read(db_type, store, CompQuery) = Satisfying(store, "NEW")
    /\ read(db_type, store, DLQuery(now)) =
           SatisfyingBefore(store, "COMPLETED", now - StaleWindow)
    /\ (0 \in Picks(db_type, store, DLQuery(now))) <=>
           (SatisfyingBefore(store, "COMPLETED", now - StaleWindow) = {})

-----------------------------------------------------------------------------
(* Construction of the machines *)

\* The backend kinds a configuration may name; the factory knows two.
Kinds == {"SQL", "mongodb", "postgres"}

\* A factory that falls back to the document backend.
create_database_fallback(kind) == [raised |-> FALSE]

\* DatabaseFactory.create_database: ValueError for any other kind.
create_database(kind) == [raised |-> kind \notin {"SQL", "mongodb"}]

\* A define_table that drops the table before it creates it.
SQLDefineTable_recreate(sch, s) == [raised |-> FALSE, schema |-> Provisioned, store |-> <<>>]

\* SQLAlchemyDatabase.define_table: metadata.create_all checks for the table
\* first and creates it, with its unique constraint, only when it is absent.
SQLDefineTable(sch, s) ==
    [raised |-> FALSE, schema |-> IF sch.exists THEN sch ELSE Provisioned, store |-> s]

\* MongoDBDatabase.define_table: create_index(unique=True) is a no-op on an
\* existing index, and fails to build a new one over duplicate urls.
MongoDefineTable(sch, s) ==
    IF sch.unique_url THEN [raised |-> FALSE, schema |-> sch, store |-> s]
    ELSE IF \E i, j \in 1..Len(s) : i # j /\ s[i].url = s[j].url
    THEN [raised |-> TRUE, schema |-> sch, store |-> s]
    ELSE [raised |-> FALSE, schema |-> Provisioned, store |-> s]

\* Database.initialize: connect, then define_table.
initialize(kind, sch, s) ==
    IF kind = "SQL" THEN SQLDefineTable(sch, s) ELSE MongoDefineTable(sch, s)

\* A constructor that raised: nothing was provisioned.
Refused(sch, s) == [raised |-> TRUE, schema |-> sch, store |-> s]

\* The database part of the three _initialize methods.
SetupDatabase(kw, kind, sch, s) ==
    IF Falsy(kw.db_config) THEN Refused(sch, s)
    ELSE IF create_database(kind).raised THEN Refused(sch, s)
    ELSE initialize(kind, sch, s)

\* KijijiPaginationFSM._initialize
PagConstruct(kw, kind, sch, s) ==
    IF Falsy(kw.url_settings) \/ Falsy(kw.base_url) THEN Refused(sch, s)
    ELSE SetupDatabase(kw, kind, sch, s)

\* KijijiCompletionFSM._initialize
CompConstruct(kw, kind, sch, s) == SetupDatabase(kw, kind, sch, s)

\* KijijiLinkCheckFSM._initialize
DLConstruct(kw, kind, sch, s) == SetupDatabase(kw, kind, sch, s)

Construct(m, kw, kind, sch, s) ==
    CASE m = "pagination" -> PagConstruct(kw, kind, sch, s)
      [] m = "completion" -> CompConstruct(kw, kind, sch, s)
      [] OTHER -> DLConstruct(kw, kind, sch, s)

-----------------------------------------------------------------------------
(* The driver: Main.run *)

\* A test that is satisfied by one finished machine.
AllFinished_any(mn, ms) == \E m \in Machines : mn.done[m] \/ m \notin ms

\* all(scraper['done'] or scraper['scraper'] is None for scraper in scrapers)
AllFinished(mn, ms) == \A m \in Machines : mn.done[m] \/ m \notin ms

\* The for loop moves to the next entry, or back to the test of the while.
AfterFor(mn) ==
    IF mn.pos < Len(Order) THEN [mn EXCEPT !.pos = mn.pos + 1] ELSE Looping(mn)

\* A driver that gives each machine one step per pass of the for loop.
AfterStep_round_robin(mn, m, returned) ==
    AfterFor([mn EXCEPT !.start[m] = TRUE, !.done[m] = returned])

\* scraper_info['start'] = True; while not scraper_info['done']:
\* scraper_info['done'] = scraper.run(continuous=False).  The for loop moves
\* on when the inner while is left.
AfterStep(mn, m, returned) ==
    IF returned
    THEN AfterFor([mn EXCEPT !.start[m] = TRUE, !.done[m] = returned])
    ELSE [mn EXCEPT !.start[m] = TRUE, !.done[m] = returned]

\* The entry of the scrapers list the for loop is at.
MainAt(m) ==
    /\ main.pc = "for" /\ Order[main.pos] = m
    /\ m \in scrapers /\ ~main.done[m]

\* One of the three constructor calls at the head of Main.run: the scraper
\* is None when the configuration does not ask for it; an exception of the
\* constructor leaves Main.run.
MainConstruct ==
    /\ main.pc = "construct"
    /\ LET m == Order[main.pos]
           c == Construct(m, main.config, db_type, schema, store)
           adv == IF main.pos < Len(Order) THEN [main EXCEPT !.pos = main.pos + 1]
                  ELSE Looping(main)
       IN  IF m \notin main.config.do
           THEN main' = adv /\ UNCHANGED <<scrapers, schema, store>>
           ELSE IF c.raised
           THEN main' = [main EXCEPT !.pc = "crashed"] /\ UNCHANGED <<scrapers, schema, store>>
           ELSE /\ main' = adv
                /\ scrapers' = scrapers \cup {m}
                /\ schema' = c.schema
                /\ store' = c.store
    /\ UNCHANGED <<rent_ad, db_type, max_zero_added, now, pag, comp, dl, base, last, hist>>

\* The test of the outer while loop.
MainWhile ==
    /\ main.pc = "while"
    /\ main' = IF AllFinished(main, scrapers) THEN [main EXCEPT !.pc = "exited"]
               ELSE [main EXCEPT !.pc = "for", !.pos = 1]
    /\ UNCHANGED <<rent_ad, store, db_type, max_zero_added, now, pag, comp, dl, base, scrapers, last,
                   hist, schema>>

\* An entry of the scrapers list that runs no step: a scraper that is None
\* is marked done, a scraper that was started is passed over.
MainPass ==
    /\ main.pc = "for"
    /\ LET m == Order[main.pos]
       IN  /\ m \notin scrapers \/ (main.start[m] /\ main.done[m])
           /\ main' = AfterFor(IF m \notin scrapers THEN [main EXCEPT !.done[m] = TRUE]
                                ELSE main)
    /\ UNCHANGED <<rent_ad, store, db_type, max_zero_added, now, pag, comp, dl, base, scrapers, last,
                   hist, schema>>

\* One pass of the inner while loop on each machine.
MainPag(outcomes) ==
    \E rsp \in PageAnswers(outcomes) :
        /\ MainAt("pagination")
        /\ PagStep(rsp)
        /\ last' = Observe("pagination", pag.current_state, PagRun(rsp))
        /\ main' = AfterStep(main, "pagination", PagRun(rsp).returned)

MainComp(outcomes) ==
    \E pick \in CompPicks : \E rsp \in DetailAnswers(comp, "GOTO_LINK", outcomes) :
        /\ MainAt("completion")
        /\ CompStep(pick, rsp)
        /\ last' = Observe("completion", comp.current_state, CompRun(pick, rsp))
        /\ main' = AfterStep(main, "completion", CompRun(pick, rsp).returned)

MainDL(outcomes) ==
    \E pick \in DLPicks : \E rsp \in DetailAnswers(dl, "CHECK_LINK", outcomes) :
        /\ MainAt("dead_link_check")
        /\ DLStep(pick, rsp)
        /\ last' = Observe("dead_link_check", dl.current_state, DLRun(pick, rsp))
        /\ main' = AfterStep(main, "dead_link_check", DLRun(pick, rsp).returned)

\* The stores Main.run may start on: no table yet, or a table that earlier
\* pagination runs have left, empty or with every listing in it.
StartingStores == {[schema |-> Absent, store |-> <<>>]}
    \cup {[schema |-> Provisioned, store |-> s] :
              s \in {n \in NewStores : Len(n) \in {0, MaxUrl}}}

\* The configurations Main.run may read: _get_db_config always builds a dict.
MainConfigs ==
    {[do |-> d, url_settings |-> u, base_url |-> b, db_config |-> "set"] :
        d \in SUBSET Machines, u \in Presence, b \in Presence}

StartOfRun(cfg, st) ==
    /\ store = st.store
    /\ schema = st.schema
    /\ db_type \in Kinds
    /\ max_zero_added = DefaultMaxZeroAdded
    /\ now = 0
    /\ pag = PagInit
    /\ comp = CompInit
    /\ dl = DLInit
    /\ base = BaseInit
    /\ scrapers = {}
    /\ hist = HistInit
    /\ last = NoStep
    /\ main = MainInit(cfg)
    /\ rent_ad = NotFormatted

\* Time passes while the machines are stepped.
MainTick == main.pc = "for" /\ Tick

InitMain == \E cfg \in MainConfigs : \E st \in StartingStores : StartOfRun(cfg, st)

NextMain ==
    \/ MainConstruct
    \/ MainWhile
    \/ MainPass
    \/ MainPag(ShortPages)
    \/ MainComp(LinkOutcomes)
    \/ MainDL(LinkOutcomes)
    \/ MainTick

SpecMain == InitMain /\ [][NextMain]_vars

\* The steps of the driver thread.
MainDriver ==
    \/ MainConstruct
    \/ MainWhile
    \/ MainPass
    \/ MainPag(ShortPages)
    \/ MainComp(LinkOutcomes)
    \/ MainDL(LinkOutcomes)

-----------------------------------------------------------------------------
(* Faults and the driver: claim C14, checked under SpecMain *)

\* The step observed last ended its machine because a handler raised.
FaultEnded == last.raised /\ last.returned

\* C14: a handler that raises ends its machine only.  The done flag of a
\* machine is set exactly when that machine is at END, the driver leaves its
\* loop only when every constructed machine is at END with its flag set, and
\* after a fault has ended a machine the driver is still in its loop, with a
\* next step to take, or has left it with every machine at END.
C14_FaultStopsOneMachine ==
    /\ \A m \in scrapers : main.done[m] <=> StateOf(m) = "END"
    /\ main.pc = "exited" => \A m \in scrapers : main.done[m] /\ StateOf(m) = "END"
    /\ FaultEnded => main.pc \in {"while", "for", "exited"}
    /\ (FaultEnded /\ main.pc \in {"while", "for"}) => ENABLED MainDriver

\* The completion machine was ended by a raising GOTO_LINK, the dead-link
\* machine was stepped after it up to END, and the driver has left its loop.
C14_Witness ==
    /\ main.pc = "exited"
    /\ scrapers = Machines
    /\ comp.current_state = "END" /\ comp.ad # None
    /\ last.m = "dead_link_check" /\ last.from = "FETCH_AD"
    /\ \A m \in Machines : main.done[m]

-----------------------------------------------------------------------------
(* The order of the steps: claim C15, checked under SpecMain *)

\* The machine object is as its constructor left it.
Untouched(m) ==
    CASE m = "pagination" -> pag = PagInit
      [] m = "completion" -> comp = CompInit
      [] OTHER -> dl = DLInit

\* C15, as stated: the driver interleaves the steps of the machines round
\* robin: when a machine takes two steps in a row, every other constructed
\* machine has terminated.
C15_RoundRobin ==
    [][(last' # last /\ last'.m = last.m) =>
          \A m2 \in scrapers \ {last.m} : Done(m2)]_vars

\* C15, amended: the driver runs the machines one after another in the order
\* pagination, completion, dead-link: a machine is stepped only when every
\* constructed machine before it in that order is at END, and while it is
\* stepped no machine after it has been started.
C15_OneAfterAnother ==
    [][last' # last =>
          /\ \A m2 \in Before(last'.m) \cap scrapers : Done(m2) /\ main.done[m2]
          /\ \A m2 \in scrapers \ (Before(last'.m) \cup {last'.m}) :
                ~main.start[m2] /\ Untouched(m2)]_vars

\* The completion machine is being stepped, after the pagination machine
\* has reached END and before the dead-link machine has taken a step.
C15_Witness ==
    /\ scrapers = Machines
    /\ last.m = "completion" /\ last.from = "UPDATE_AD"
    /\ Done("pagination") /\ pag.start_page > DefaultStartPage
    /\ ~main.start["dead_link_check"] /\ Untouched("dead_link_check")

-----------------------------------------------------------------------------
(* Provisioning: claim C19, checked under SpecMain *)

\* C19: initialize is idempotent: called on a store whose table exists, at
\* any point of a run and on either backend, it succeeds and returns the
\* schema and the records as they are; and each construction of a machine on
\* an existing table leaves the records and the unique constraint unchanged.
C19_InitializeIdempotent ==
    /\ []((schema.exists /\ db_type \in {"SQL", "mongodb"}) =>
             initialize(db_type, schema, store) =
                 [raised |-> FALSE, schema |-> schema, store |-> store])
    /\ [][(scrapers' # scrapers /\ schema.exists) =>
             (schema' = schema /\ schema'.unique_url /\ store' = store)]_vars

\* The three machines have been constructed, each with its own initialize,
\* on a table that held records before the first of them.
C19_Witness ==
    /\ scrapers = Machines
    /\ main.pc = "while" /\ last = NoStep
    /\ schema = Provisioned
    /\ Len(store) = MaxUrl

-----------------------------------------------------------------------------
(* SpecConstruct: the constructors called with any keyword arguments, the
   machines then driven as Main.run drives them. *)

\* Keyword arguments with each of url_settings, base_url and db_config
\* missing, empty or set, for the construction of one machine.
AnyKwargs ==
    {[do |-> {m}, url_settings |-> u, base_url |-> b, db_config |-> d] :
        m \in Machines, u \in Presence, b \in Presence, d \in Presence}

InitConstruct == \E cfg \in AnyKwargs : \E st \in StartingStores : StartOfRun(cfg, st)

SpecConstruct == InitConstruct /\ [][NextMain]_vars

-----------------------------------------------------------------------------
(* Configuration faults: claim C20, checked under SpecConstruct *)

\* The configuration lacks something the constructor of machine m needs, or
\* names a backend kind the factory does not know.
ConfigFault(m) ==
    \/ Falsy(main.config.db_config)
    \/ m = "pagination" /\ (Falsy(main.config.url_settings) \/ Falsy(main.config.base_url))
    \/ db_type \notin {"SQL", "mongodb"}

\* No machine has taken a step, nothing was fetched, nothing was stored.
NothingDone ==
    /\ last = NoStep
    /\ pag = PagInit /\ comp = CompInit /\ dl = DLInit

-----------------------------------------------------------------------------
(* The formatter: claims C21 and C22, checked under SpecFormat *)

InitFormat ==
    \E d \in RawData :
        /\ rent_ad = [stage |-> "raw", raw_data |-> d]
        /\ store = <<>>
        /\ schema = Provisioned
        /\ db_type = "SQL"
        /\ max_zero_added = DefaultMaxZeroAdded
        /\ now = 0
        /\ pag = PagInit
        /\ comp = CompInit
        /\ dl = DLInit
        /\ base = BaseInit
        /\ scrapers = {}
        /\ hist = HistInit
        /\ last = NoStep
        /\ main = MainInit(GoodKwargs)

\* format_data on the raw listing: the price, then the attributes; an
\* exception out of either makes it return None.
FormatData ==
    /\ rent_ad.stage = "raw"
    /\ LET price == _calculate_price(rent_ad.raw_data)
           attributes == _extract_attributes(rent_ad.raw_data)
       IN  rent_ad' = [stage |-> "formatted",
                       raw_data |-> rent_ad.raw_data,
                       is_none |-> price.raised \/ attributes.raised,
                       price |-> price.value,
                       attributes |-> attributes.value]
    /\ UNCHANGED <<store, schema, db_type, max_zero_added, now, pag, comp, dl, base, scrapers,
                   hist, last, main>>

\* _extract_attributes applied to the flat mapping it produced, handed over
\* as the listing itself or as the listing's "attributes".
FormatAgain ==
    \E as \in {"listing", "attributes"} :
        /\ rent_ad.stage = "formatted"
        /\ ~rent_ad.is_none
        /\ LET flat == rent_ad.attributes
               data == IF as = "listing" THEN flat ELSE "attributes" :> PyDict(flat)
           IN  rent_ad' = [stage |-> "formatted again", as |-> as,
                           again |-> _extract_attributes(data)] @@ rent_ad
        /\ UNCHANGED <<store, schema, db_type, max_zero_added, now, pag, comp, dl, base,
                       scrapers, hist, last, main>>

NextFormat == FormatData \/ FormatAgain

SpecFormat == InitFormat /\ [][NextFormat]_vars

\* C21: a listing whose price amount is absent or null is formatted with a
\* null price, never 0, and a listing with the integer amount n is formatted
\* with the price n/100 in two decimals (12345 gives 123.45).
C21_PriceNullOrScaled ==
    rent_ad.stage = "formatted" =>
        LET d == rent_ad.raw_data
            has_amount == /\ "price" \in DOMAIN d
                          /\ d["price"].type = "dict"
                          /\ "amount" \in DOMAIN d["price"].v
            amount == d["price"].v["amount"]
        IN  /\ (~has_amount \/ amount.type = "NoneType") =>
                    rent_ad.is_none \/ rent_ad.price = PyNone
            /\ (has_amount /\ amount.type = "int") =>
                    /\ ~rent_ad.is_none
                    /\ rent_ad.price.type = "float"
                    /\ rent_ad.price.hundredths \in 0..99
                    /\ 100 * rent_ad.price.units + rent_ad.price.hundredths = amount.v
                    /\ amount.v = 12345 =>
                           rent_ad.price.units = 123 /\ rent_ad.price.hundredths = 45

\* C22: formatting the attributes of an already normalized flat mapping
\* yields the same mapping.
C22_AttributesIdempotent ==
    rent_ad.stage = "formatted again" =>
        ~rent_ad.again.raised /\ rent_ad.again.value = rent_ad.attributes


-----------------------------------------------------------------------------
(* SpecRun: run() and run(continuous=False) called on one machine, also
   after it has reached END.  A run() call is seen one pass of its while loop
   at a time. *)

\* What is recorded of one pass: `returned' says that the call returned
\* (true) after it; a run() call that has not returned makes its next pass.
ObserveRun(m, from, r, continuous) ==
    [continuous |-> continuous, store_before |-> store] @@ Observe(m, from, r)

\* The caller may call run on m in the given mode: a run() call that is
\* between two passes of its loop makes the next pass before anything else.
MayRun(m, continuous) ==
    (last.m # "none" /\ last.continuous /\ ~last.returned) => (m = last.m /\ continuous)

PagCalled(outcomes) ==
    \E continuous \in BOOLEAN : \E rsp \in PageAnswers(outcomes) :
        /\ MayRun("pagination", continuous)
        /\ PagStep(rsp)
        /\ last' = ObserveRun("pagination", pag.current_state, PagRun(rsp), continuous)
        /\ UNCHANGED main

CompCalled(outcomes) ==
    \E continuous \in BOOLEAN : \E pick \in CompPicks :
        \E rsp \in DetailAnswers(comp, "GOTO_LINK", outcomes) :
            /\ MayRun("completion", continuous)
            /\ CompStep(pick, rsp)
            /\ last' = ObserveRun("completion", comp.current_state, CompRun(pick, rsp),
                                  continuous)
            /\ UNCHANGED main

DLCalled(outcomes) ==
    \E continuous \in BOOLEAN : \E pick \in DLPicks :
        \E rsp \in DetailAnswers(dl, "CHECK_LINK", outcomes) :
            /\ MayRun("dead_link_check", continuous)
            /\ DLStep(pick, rsp)
            /\ last' = ObserveRun("dead_link_check", dl.current_state, DLRun(pick, rsp),
                                  continuous)
            /\ UNCHANGED main

BaseCalled ==
    \E continuous \in BOOLEAN :
        /\ MayRun("base", continuous)
        /\ BaseStep
        /\ last' = ObserveRun("base", base.current_state, BaseRun, continuous)
        /\ UNCHANGED main

NextRun ==
    \/ PagCalled(FaultyPages)
    \/ CompCalled(DetailOutcomes)
    \/ DLCalled(DetailOutcomes)
    \/ BaseCalled

SpecRun == InitEngine /\ [][NextRun]_vars

-----------------------------------------------------------------------------
(* The pagination cycle: claims C24 and C25, checked under SpecPag *)

\* C24: the pagination machine moves only along GET_PAGE -> EXTRACT_LISTINGS
\* -> FORMAT_DATA -> ADD_DATA -> INC_PAGE -> GET_PAGE or to END; INC_PAGE adds
\* exactly 1 to the page number and no other state changes it, so the page at
\* GET_PAGE is always one more than the number of pages handled before it.
C24_CycleAndPageNumber ==
    /\ [](pag.current_state = "GET_PAGE" => pag.start_page = DefaultStartPage + hist.pages)
    /\ [][pag' # pag =>
            /\ \/ pag'.current_state = "END"
               \/ <<pag.current_state, pag'.current_state>> \in
                      {<<"GET_PAGE", "EXTRACT_LISTINGS">>, <<"EXTRACT_LISTINGS", "FORMAT_DATA">>,
                       <<"FORMAT_DATA", "ADD_DATA">>, <<"ADD_DATA", "INC_PAGE">>,
                       <<"INC_PAGE", "GET_PAGE">>}
            /\ pag.current_state \in PagMethods
            /\ pag'.start_page = IF pag.current_state = "INC_PAGE" THEN pag.start_page + 1
                                 ELSE pag.start_page
            /\ (pag.current_state = "GET_PAGE") = (last'.net # <<>>)]_vars

\* The second result page is about to be fetched after a first page that
\* added a record.
C24_Witness ==
    /\ pag.current_state = "GET_PAGE"
    /\ pag.start_page = DefaultStartPage + 1
    /\ hist.pages = 1
    /\ hist.added > 0
    /\ last.from = "INC_PAGE"


\* C25: ADD_DATA on a page with at least one successful insert leaves
\* zero_added as it is and goes to INC_PAGE; on a page with no successful
\* insert it adds exactly 1 to zero_added; no other state changes the counter,
\* which therefore never decreases.
C25_ZeroCounterFrame ==
    [][/\ (pag.current_state = "ADD_DATA" /\ pag' # pag) =>
            /\ Len(store') > Len(store) =>
                   pag'.zero_added = pag.zero_added /\ pag'.current_state = "INC_PAGE"
            /\ Len(store') = Len(store) => pag'.zero_added = pag.zero_added + 1
       /\ pag.current_state # "ADD_DATA" => pag'.zero_added = pag.zero_added
       /\ pag'.zero_added >= pag.zero_added]_vars

\* ADD_DATA inserted a record on a page that came after a zero-insert page:
\* the counter is still 1.
C25_Witness ==
    /\ last.from = "ADD_DATA"
    /\ hist.added > 0
    /\ hist.zero_pages = 1
    /\ pag.zero_added = 1
    /\ pag.current_state = "INC_PAGE"


-----------------------------------------------------------------------------
(* Fetch failures: claim C26, checked under SpecEngine *)

\* C26: in a fetching state (GET_PAGE, GOTO_LINK, CHECK_LINK) a fetch that
\* fails makes the step end with the machine at END, lets no exception out of
\* fsm() and leaves the store as it was.
C26_FetchFailureEnds ==
    /\ ("pagination" \in scrapers /\ pag.current_state = "GET_PAGE") =>
           LET res == PagHandler(pag, db_type, store, max_zero_added, FailedPage)
               f == fsm(pag, store, PagMethods, res)
           IN  /\ ~f.propagated
               /\ f.store = store
               /\ PagRun(FailedPage).self.current_state = "END"
    /\ ("completion" \in scrapers /\ comp.current_state = "GOTO_LINK") =>
           \A u \in URLS :
               LET res == CompHandler(comp, store, now, 0, Detail("fail", u))
                   f == fsm(comp, store, CompMethods, res)
               IN  /\ ~f.propagated
                   /\ f.store = store
                   /\ CompRun(0, Detail("fail", u)).self.current_state = "END"
    /\ ("dead_link_check" \in scrapers /\ dl.current_state = "CHECK_LINK") =>
           \A u \in URLS :
               LET res == DLHandler(dl, store, now, 0, Detail("fail", u))
                   f == fsm(dl, store, DLMethods, res)
               IN  /\ ~f.propagated
                   /\ f.store = store
                   /\ DLRun(0, Detail("fail", u)).self.current_state = "END"
    /\ (last.from \in {"GOTO_LINK", "CHECK_LINK"} /\ last.raised) =>
           StateOf(last.m) = "END" /\ last.returned

\* The fetch of CHECK_LINK failed on a stale record: the dead-link machine is
\* at END and the record is as it was.
C26_Witness ==
    /\ last.m = "dead_link_check"
    /\ last.from = "CHECK_LINK"
    /\ last.raised
    /\ dl.current_state = "END"
    /\ RowsOf(store, dl.ad[1].url) = {dl.ad[1]}


-----------------------------------------------------------------------------
(* Extraction of the listings: claim C27, checked under SpecPag *)

-----------------------------------------------------------------------------
(* The completion cycle: claims C28, C29 and C30, checked under SpecEngine *)

\* C28: extract_ad_JSON on a detail page without payload ends the completion
\* machine and leaves the store as it was: the record fetched in this cycle is
\* still the NEW row that FETCH_AD read, and the read of a later FETCH_AD may
\* return it.
C28_AbsentPayloadKeepsNew ==
    /\ [](CompExtractionFault =>
            /\ comp.current_state = "END"
            /\ CurrentAdRows = {comp.ad[1]}
            /\ comp.ad[1].process_state = "NEW"
            /\ \E pick \in Picks(db_type, store, CompQuery) :
                   pick # 0 /\ store[pick].url = comp.ad[1].url)
    /\ [][(comp.current_state = "extract_ad_JSON" /\ comp' # comp) => store' = store]_vars

\* The detail page of a NEW record had no window.__data script: the machine
\* is at END and another NEW record is still in the store.
C28_Witness ==
    /\ CompExtractionFault
    /\ comp.response[1].kind = "notag"
    /\ last.raised
    /\ comp.current_state = "END"
    /\ OtherNewRows # {}


\* C29: UPDATE_AD rewrites exactly the record whose url FETCH_AD read in this
\* cycle: it keeps its url and is COMPLETED, ACTIVE and checked now; every
\* other record is as it was, and the next state is FETCH_AD.
C29_UpdateAdFrame ==
    [][(comp.current_state = "UPDATE_AD" /\ comp' # comp) =>
          /\ comp'.current_state = "FETCH_AD"
          /\ comp'.ad = comp.ad
          /\ Len(store') = Len(store)
          /\ \E i \in 1..Len(store) : store[i].url = comp.ad[1].url
          /\ \A i \in 1..Len(store) :
                 IF store[i].url = comp.ad[1].url
                 THEN /\ store'[i].url = store[i].url
                      /\ store'[i].process_state = "COMPLETED"
                      /\ store'[i].state = "ACTIVE"
                      /\ store'[i].last_checked_date = now
                 ELSE store'[i] = store[i]]_vars

\* UPDATE_AD completed one record at time 1 while another record is still NEW.
C29_Witness ==
    /\ last.m = "completion"
    /\ last.from = "UPDATE_AD"
    /\ comp.current_state = "FETCH_AD"
    /\ now = 1
    /\ \A r \in CurrentAdRows :
           r.process_state = "COMPLETED" /\ r.state = "ACTIVE" /\ r.last_checked_date = 1
    /\ OtherNewRows # {}

\* C30: GOTO_LINK goes to DEAD_AD exactly when the fetched page matches the
\* dead-page heuristic and to extract_ad_JSON otherwise; DEAD_AD rewrites
\* exactly the record read in this cycle, which is then COMPLETED and DEAD with
\* last_checked_date and removal_date both set to the current time; every other
\* record is as it was, and the next state is FETCH_AD.
C30_DeadAdFrame ==
    /\ []((last.m = "completion" /\ last.from = "GOTO_LINK" /\ ~last.raised) =>
            /\ comp.current_state \in {"DEAD_AD", "extract_ad_JSON"}
            /\ (comp.current_state = "DEAD_AD") = (comp.response[1].kind = "dead"))
    /\ [][(comp.current_state = "DEAD_AD" /\ comp' # comp) =>
            /\ comp'.current_state = "FETCH_AD"
            /\ Len(store') = Len(store)
            /\ \E i \in 1..Len(store) : store[i].url = comp.ad[1].url
            /\ \A i \in 1..Len(store) :
                   IF store[i].url = comp.ad[1].url
                   THEN /\ store'[i].url = store[i].url
                        /\ store'[i].process_state = "COMPLETED"
                        /\ store'[i].state = "DEAD"
                        /\ store'[i].last_checked_date = now
                        /\ store'[i].removal_date = now
                   ELSE store'[i] = store[i]]_vars

\* DEAD_AD closed one record at time 1 while another record is still NEW.
C30_Witness ==
    /\ last.m = "completion"
    /\ last.from = "DEAD_AD"
    /\ comp.current_state = "FETCH_AD"
    /\ comp.response[1].kind = "dead"
    /\ now = 1
    /\ \A r \in CurrentAdRows :
           r.state = "DEAD" /\ r.last_checked_date = 1 /\ r.removal_date = 1
    /\ OtherNewRows # {}


-----------------------------------------------------------------------------
(* The dead-link cycle: claims C31 and C32, checked under SpecEngine *)

\* C31: Dead-Link FETCH_AD goes to CHECK_LINK only with a stored record that
\* is COMPLETED and was last checked more than the staleness window ago, and
\* goes to END exactly when the store holds no such record.
C31_SelectsStaleCompleted ==
    [][(dl.current_state = "FETCH_AD" /\ dl' # dl) =>
          /\ dl'.current_state \in {"CHECK_LINK", "END"}
          /\ dl'.current_state = "CHECK_LINK" =>
                 /\ dl'.ad # None
                 /\ \E i \in SatisfyingBefore(store, "COMPLETED", now - StaleWindow) :
                        dl'.ad[1] = store[i]
          /\ (dl'.current_state = "END") =
                 (SatisfyingBefore(store, "COMPLETED", now - StaleWindow) = {})]_vars


\* C32: a CHECK_LINK whose fetch succeeded rewrites exactly the selected
\* record: state DEAD and removal_date set when the page is classified dead,
\* last_checked_date alone otherwise; every other record is as it was and the
\* next state is FETCH_AD.
C32_CheckLinkFrame ==
    [][(dl.current_state = "CHECK_LINK" /\ dl' # dl /\ ~last'.raised) =>
          /\ dl'.current_state = "FETCH_AD"
          /\ Len(store') = Len(store)
          /\ \E i \in 1..Len(store) : store[i].url = dl.ad[1].url
          /\ \A i \in 1..Len(store) :
                 IF store[i].url # dl.ad[1].url THEN store'[i] = store[i]
                 ELSE IF dl'.response[1].kind = "dead"
                 THEN /\ store'[i].state = "DEAD"
                      /\ store'[i].removal_date = now
                      /\ store'[i].url = store[i].url
                      /\ store'[i].title = store[i].title
                 ELSE store'[i] = [store[i] EXCEPT !.last_checked_date = now]]_vars

\* CHECK_LINK found the page of a record that was marked DEAD alive: only the
\* date of the check changed.
C32_Witness ==
    /\ last.m = "dead_link_check"
    /\ last.from = "CHECK_LINK"
    /\ ~last.raised
    /\ dl.response[1].kind = "payload"
    /\ dl.current_state = "FETCH_AD"
    /\ dl.ad[1].state = "DEAD"
    /\ RowsOf(store, dl.ad[1].url) = {[dl.ad[1] EXCEPT !.last_checked_date = now]}
    /\ now > dl.ad[1].last_checked_date


-----------------------------------------------------------------------------
(* SpecScratch: the completion machine driven alone on a site where the
   detail page of a record carries the payload of that record, so that the
   data of one record can be told from the data of another.  Claim C33. *)

\* What the fetch of the url of the selected record may give.
OwnDetails ==
    {Detail(k, comp.ad[1].url) : k \in {"fail", "dead", "notag", "empty", "badfmt", "payload"}}

InitScratch ==
    \E s0 \in SeedStores :
        /\ Constructed({"completion"}, DefaultMaxZeroAdded, s0)
        /\ last = NoStep

NextScratch == CompObserved(OwnDetails) \/ Tick

SpecScratch == InitScratch /\ [][NextScratch]_vars

\* C33: when the completion machine is about to write in UPDATE_AD or DEAD_AD,
\* the response it holds is the page of the record the latest FETCH_AD
\* selected, and in UPDATE_AD the extracted payload and the formatted data
\* come from that page, each produced by the step just before.
C33_ScratchIsOfThisCycle ==
    /\ comp.current_state = "DEAD_AD" =>
           /\ last.from = "GOTO_LINK"
           /\ comp.response[1] = Detail("dead", comp.ad[1].url)
    /\ comp.current_state = "UPDATE_AD" =>
           /\ last.from = "FORMAT_DATA"
           /\ comp.response[1] = Detail("payload", comp.ad[1].url)
           /\ comp.extracted_json[1].seoUrl = comp.ad[1].url
           /\ comp.formatted_ad_data[1] = format_data(Raw(comp.ad[1].url, "detail"))
    /\ (comp.current_state \in {"DEAD_AD", "UPDATE_AD"}) =>
           \E i \in 1..Len(store) : store[i] = comp.ad[1] /\ store[i].process_state = "NEW"

\* The machine is about to write the record of url 2 after it completed the
\* record of url 1 in an earlier cycle of this run.
C33_Witness ==
    /\ comp.current_state = "UPDATE_AD"
    /\ comp.ad[1].url = 2
    /\ comp.formatted_ad_data[1].url = 2
    /\ now = 1
    /\ \E r \in RowsOf(store, 1) : r.process_state = "COMPLETED" /\ r.last_checked_date = 1


------------------------------------------------------------------------------
(* Record lifecycle under interleaving: claims C34 and C35, checked under Spec *)

\* C34: whatever machine takes a step, a url that had a COMPLETED record has
\* only COMPLETED records after it (a later insert of the url by Pagination
\* does not bring back a NEW one), and a url that had a DEAD record has only
\* DEAD records after it.
C34_LifecycleMonotonic ==
    [][\A u \in URLS :
          /\ (\E r \in RowsOf(store, u) : r.process_state = "COMPLETED") =>
                 /\ RowsOf(store', u) # {}
                 /\ \A r \in RowsOf(store', u) : r.process_state = "COMPLETED"
          /\ (\E r \in RowsOf(store, u) : r.state = "DEAD") =>
                 /\ RowsOf(store', u) # {}
                 /\ \A r \in RowsOf(store', u) : r.state = "DEAD"]_vars

\* Pagination has offered, on its second page, the url of a record that
\* Completion had closed as DEAD; nothing was added and the record stands.
C34_Witness ==
    /\ pag.current_state = "END"
    /\ hist.pages = 2
    /\ hist.added = 0
    /\ pag.formatted_data # None
    /\ \E i \in 1..Len(store) :
          /\ store[i].process_state = "COMPLETED"
          /\ store[i].state = "DEAD"
          /\ \E j \in 1..Len(pag.formatted_data[1]) : pag.formatted_data[1][j].url = store[i].url


\* The states in which Completion holds the record its FETCH_AD selected.
CompHolding == {"GOTO_LINK", "extract_ad_JSON", "FORMAT_DATA", "UPDATE_AD", "DEAD_AD"}

\* C35: while the three machines take steps in any order on one store, the
\* record a machine selected is stored unchanged until that machine writes
\* it: the row of its url is the record Completion holds from FETCH_AD to
\* UPDATE_AD / DEAD_AD, and the record Dead-Link holds at CHECK_LINK, so the
\* whole-record write-back of Dead-Link replaces nothing newer than it read.
C35_HeldRecordUnmodified ==
    /\ comp.current_state \in CompHolding =>
           /\ comp.ad # None
           /\ comp.ad[1].process_state = "NEW"
           /\ RowsOf(store, comp.ad[1].url) = {comp.ad[1]}
    /\ dl.current_state = "CHECK_LINK" =>
           /\ dl.ad # None
           /\ dl.ad[1].process_state = "COMPLETED"
           /\ RowsOf(store, dl.ad[1].url) = {dl.ad[1]}

\* Dead-Link and Completion each hold a record while Pagination is about to
\* add a page.
C35_Witness ==
    /\ dl.current_state = "CHECK_LINK"
    /\ comp.current_state = "UPDATE_AD"
    /\ pag.current_state = "ADD_DATA"
    /\ dl.ad[1].url # comp.ad[1].url
    /\ Len(store) = 2


------------------------------------------------------------------------------
(* SpecDeadLink: the Dead-Link machine alone on a store earlier runs left,
   through a run that may last longer than the staleness window.  Claims C36
   and C39 *)

\* The longest run, in clock units: long enough for a record checked in the
\* run to fall behind the cutoff again.
MaxRunTime == 4

InitDeadLink ==
    \E s0 \in SeedStores :
        /\ Constructed({"dead_link_check"}, DefaultMaxZeroAdded, s0)
        /\ last = NoStep

\* The clock between two reads of it: FETCH_AD reads datetime.now() and
\* CHECK_LINK time.strftime, with delay_action and the fetch in between.
Elapse ==
    /\ now < MaxRunTime
    /\ now' = now + 1
    /\ UNCHANGED <<rent_ad, store, db_type, max_zero_added, pag, comp, dl, base, scrapers, last, hist,
                   main, schema>>

NextDeadLink == DLObserved(LinkOutcomes) \/ Elapse

SpecDeadLink == InitDeadLink /\ [][NextDeadLink]_vars

\* The COMPLETED records last checked before the cutoff of time t.
Stale(s, t) == SatisfyingBefore(s, "COMPLETED", t - StaleWindow)

\* What is left to do at time t if the clock stood still.
DLRank(self, s, t) ==
    CASE self.current_state = "END" -> 0
      [] self.current_state = "FETCH_AD" -> 2 * Cardinality(Stale(s, t)) + 2
      [] OTHER -> 2 * Cardinality(Stale(s, t)) + 1

------------------------------------------------------------------------------
(* Termination of the Completion machine alone: claim C37, checked under
   SpecScratch *)

\* The records a FETCH_AD of Completion can select.
NewRecords(s) == Satisfying(s, "NEW")

\* The handler calls left in the cycle under way, after the FETCH_AD calls
\* the NEW records still ask for.
CompRank(self, s) ==
    CASE self.current_state = "END" -> 0
      [] self.current_state = "FETCH_AD" -> 6 * Cardinality(NewRecords(s)) + 6
      [] self.current_state = "GOTO_LINK" -> 6 * Cardinality(NewRecords(s)) + 5
      [] self.current_state = "extract_ad_JSON" -> 6 * Cardinality(NewRecords(s)) + 4
      [] self.current_state = "FORMAT_DATA" -> 6 * Cardinality(NewRecords(s)) + 3
      [] OTHER -> 6 * Cardinality(NewRecords(s)) + 2

------------------------------------------------------------------------------
(* The inserts of one page: claim C38, checked under SpecPag *)

\* The urls of the listings ADD_DATA is about to add.
PageUrls == {pag.formatted_data[1][j].url : j \in 1..Len(pag.formatted_data[1])}

\* C38: the number of successful inserts ADD_DATA counts for a page is the
\* number of distinct urls of the page that were not stored before the step;
\* a listing whose url is stored, or came earlier in the page, is refused and
\* the listings after it are still inserted: after the step every url of the
\* page is stored exactly once, the rows stored before are as they were and
\* the store has grown by the number counted.
C38_CountsDistinctNewUrls ==
    [][(pag.current_state = "ADD_DATA" /\ pag' # pag) =>
          /\ hist'.added = Cardinality(PageUrls \ StoredUrls(store))
          /\ Len(store') = Len(store) + hist'.added
          /\ \A u \in PageUrls : Cardinality({i \in 1..Len(store') : store'[i].url = u}) = 1
          /\ \A u \in StoredUrls(store) : RowsOf(store', u) = RowsOf(store, u)
          /\ \A u \in StoredUrls(store') : u \in StoredUrls(store) \cup PageUrls]_vars

\* A page whose first listing was stored already and whose second was not:
\* one insert was counted and both urls are stored.
C38_Witness ==
    /\ AfterAddData
    /\ hist.added = 1
    /\ Len(pag.formatted_data[1]) = 2
    /\ pag.formatted_data[1][1].url = 1
    /\ pag.formatted_data[1][2].url = 2
    /\ hist.pages = 1
    /\ Len(store) = 2


------------------------------------------------------------------------------
(* Records that are already DEAD: claim C39, checked under SpecDeadLink *)

\* C39: the selection of Dead-Link does not look at state: at FETCH_AD a
\* DEAD record among the stale COMPLETED ones is one that FETCH_AD can
\* select, and a CHECK_LINK that finds the page of a DEAD record dead again
\* overwrites its removal_date with the time of this check.
C39_DeadRecordsRechecked ==
    /\ [](dl.current_state = "FETCH_AD" =>
              \A i \in Stale(store, now) : store[i].state = "DEAD" => i \in DLPicks)
    /\ [][(/\ dl.current_state = "CHECK_LINK"
           /\ dl' # dl
           /\ ~last'.raised
           /\ dl.ad[1].state = "DEAD"
           /\ is_link_dead(dl'.response[1])) =>
              \A r \in RowsOf(store', dl.ad[1].url) :
                  /\ r.state = "DEAD"
                  /\ r.removal_date = now
                  /\ r.last_checked_date = now]_vars

\* C39 on the document backend, where the query of FETCH_AD is understood:
\* stale DEAD records are selected and a dead re-check moves removal_date.
C39_OnDocumentStore ==
    /\ [](db_type = "mongodb" /\ dl.current_state = "FETCH_AD" =>
              \A i \in Stale(store, now) : store[i].state = "DEAD" => i \in DLPicks)
    /\ [][(/\ dl.current_state = "CHECK_LINK"
           /\ dl' # dl
           /\ ~last'.raised
           /\ dl.ad[1].state = "DEAD"
           /\ is_link_dead(dl'.response[1])) =>
              \A r \in RowsOf(store', dl.ad[1].url) :
                  /\ r.state = "DEAD"
                  /\ r.removal_date = now
                  /\ r.last_checked_date = now]_vars

\* A record found dead at 0 was found dead again: removal_date is the time
\* of the second check.
C39_Recheck ==
    /\ last.m = "dead_link_check" /\ last.from = "CHECK_LINK" /\ ~last.raised
    /\ dl.ad[1].state = "DEAD" /\ dl.ad[1].removal_date = 0
    /\ \E r \in RowsOf(store, dl.ad[1].url) : r.state = "DEAD" /\ r.removal_date = 2

====
